---------------------------- MODULE Spec2Model ----------------------------
(***************************************************************************)
(* Model of pkg/adaptivecards of stakater/prometheus-msteams: the variant  *)
(* registry (typeRegistry / RegisterType / FindMapKey), the reflective     *)
(* JSON codec (SmartMarshalFromJSON / marshalWithType / SmartUnmarshalJSON *)
(* and the helpers they call), the multi-shape scalars TargetElement and   *)
(* GridColumnWidth, the version validator (ParseVersion / ValidateVersion  *)
(* / validateStruct), and the registry under concurrent goroutines.        *)
(*                                                                         *)
(* Go values and JSON values are both modelled as records tagged by a      *)
(* field k, so that any two of them can be compared.  The reflective code  *)
(* is driven by the struct declarations; Fields(T) below is the table of   *)
(* those declarations (name, json key, omitempty, version tag, Go type).   *)
(***************************************************************************)
EXTENDS Integers, Sequences, FiniteSets, TLC

VARIABLES typeRegistry, initIdx, op, arch, accessing

vars == <<typeRegistry, initIdx, op, arch, accessing>>

(***************************************************************************)
(* Go values.                                                              *)
(***************************************************************************)
Nil == [k |-> "nil"]
Str(s) == [k |-> "str", s |-> s]
Bool(b) == [k |-> "bool", b |-> b]
GoInt(n) == [k |-> "int", n |-> n]
Float(n, whole) == [k |-> "float", n |-> n, whole |-> whole]
Ptr(v) == [k |-> "ptr", v |-> v]
Slice(a) == [k |-> "slice", a |-> a]
GoMap(m) == [k |-> "map", m |-> m]
Struct(T, f) == [k |-> "struct", T |-> T, f |-> f]
(* A value of a named string type, e.g. FallbackOption("drop"). *)
Named(T, s) == [k |-> "named", T |-> T, s |-> s]

(***************************************************************************)
(* JSON values.  JBad stands for a byte string that is not valid JSON.     *)
(* A number carries its integer part and whether it is a whole number.     *)
(***************************************************************************)
JNull == [k |-> "jnull"]
JBad == [k |-> "jbad"]
JStr(s) == [k |-> "jstr", s |-> s]
JBool(b) == [k |-> "jbool", b |-> b]
JNum(n, whole) == [k |-> "jnum", n |-> n, whole |-> whole]
JArr(a) == [k |-> "jarr", a |-> a]
JObj(o) == [k |-> "jobj", o |-> o]

EmptyMap == [x \in {} |-> Nil]
Put(m, key, v) == (key :> v) @@ m

(***************************************************************************)
(* Outcomes of an operation: a value, a returned error (with the field     *)
(* names the wrappers attached), a run-time panic, or the fatal stack      *)
(* overflow of an unbounded recursion.                                     *)
(***************************************************************************)
Ok(v) == [st |-> "ok", v |-> v]
Err(e, ctx) == [st |-> "err", e |-> e, ctx |-> ctx]
Panic == [st |-> "panic"]
Overflow == [st |-> "overflow"]
(* fmt.Errorf("... %w", err) and errors.Join(errors.New(...), err): the
   wrapped error keeps its identity and gains the wrapper's text. *)
Wrap(r, w, name) ==
    IF r.st = "err" THEN Err(r.e, <<[w |-> w, name |-> name]>> \o r.ctx) ELSE r

(* K applied to the value of r, r being evaluated once: the statement
   "r := ...; <K>" of the code. *)
Bind(r, K(_)) == CHOOSE res \in {K(x) : x \in {r}} : TRUE

(***************************************************************************)
(* The struct declarations.  F is a tagged field, A an embedded one.  The  *)
(* table keeps, of every struct, the fields the properties below bear on,  *)
(* in the order of the declaration; a named string type (TextBlockStyle,   *)
(* BlockElementHeight, TargetWidth) is written as string.                  *)
(***************************************************************************)
F(name, key, omit, ver, typ) ==
    [name |-> name, key |-> key, omit |-> omit, ver |-> ver, typ |-> typ, anon |-> FALSE]
A(name, typ) ==
    [name |-> name, key |-> "", omit |-> FALSE, ver |-> "", typ |-> typ, anon |-> TRUE]

Fields(T) ==
    CASE T = "Common" ->
           << F("Fallback", "fallback", TRUE, "1.2", "any"),
              F("Height", "height", TRUE, "1.1", "*string"),
              F("ID", "id", TRUE, "1.0", "string"),
              F("IsVisible", "isVisible", TRUE, "1.2", "bool") >>
      [] T = "CommonActionProperties" ->
           << F("Fallback", "fallback", TRUE, "1.2", "any"),
              F("ID", "id", TRUE, "", "string"),
              F("Title", "title", TRUE, "", "string"),
              F("Tooltip", "tooltip", TRUE, "1.5", "string") >>
      [] T = "AdaptiveCard" ->
           << F("Actions", "actions", TRUE, "", "[]Action"),
              F("Body", "body", TRUE, "", "[]Element"),
              F("Version", "version", FALSE, "", "string"),
              F("Fallback", "fallback", TRUE, "1.2", "any"),
              F("Layouts", "layouts", TRUE, "1.5", "*Layout"),
              F("MinHeight", "minHeight", TRUE, "1.2", "string"),
              F("RTL", "rtl", TRUE, "1.5", "*bool"),
              F("SelectAction", "selectAction", TRUE, "1.1", "Action") >>
      [] T = "TextBlock" ->
           << A("Common", "*Common"),
              F("Style", "style", TRUE, "1.5", "*string"),
              F("Wrap", "wrap", TRUE, "", "bool"),
              F("Text", "text", FALSE, "", "*string") >>
      [] T = "Container" ->
           << A("Common", "*Common"),
              F("Items", "items", FALSE, "", "[]Element"),
              F("Bleed", "bleed", TRUE, "1.2", "bool"),
              F("SelectAction", "selectAction", TRUE, "1.1", "Action") >>
      [] T = "ColumnSet" ->
           << A("Common", "*Common"),
              F("Columns", "columns", TRUE, "", "[]Column"),
              F("Bleed", "bleed", TRUE, "1.2", "bool") >>
      [] T = "Column" ->
           << A("Common", "*Common"),
              F("Items", "items", TRUE, "", "[]Element"),
              F("Layout", "layout", TRUE, "1.5", "*Layout"),
              F("RoundedCorners", "roundedCorners", TRUE, "1.5", "bool") >>
      [] T = "Image" ->
           << A("Common", "*Common"),
              F("AllowExpand", "allowExpand", TRUE, "", "bool"),
              F("Height", "height", TRUE, "", "any"),
              F("URL", "url", FALSE, "", "string") >>
      [] T = "Table" ->
           << A("Common", "*Common"),
              F("Columns", "columns", TRUE, "", "[]TableColumnDefinition"),
              F("FirstRowAsHeader", "firstRowAsHeader", TRUE, "", "bool") >>
      [] T = "TableColumnDefinition" ->
           << F("Width", "width", TRUE, "", "any"),
              F("Key", "key", TRUE, "1.0", "string") >>
      [] T = "ActionOpenURL" ->
           << A("CommonActionProperties", "*CommonActionProperties"),
              F("URL", "url", FALSE, "", "string") >>
      [] T = "ActionPopover" ->
           << A("CommonActionProperties", "*CommonActionProperties"),
              F("Content", "content", TRUE, "", "*Element"),
              F("PopoverTitle", "popoverTitle", TRUE, "", "string") >>
      [] T = "ActionToggleVisibility" ->
           << A("CommonActionProperties", "*CommonActionProperties"),
              F("TargetElements", "targetElements", FALSE, "", "[]TargetElement") >>
      [] T = "TargetElement" ->
           << F("ElementID", "elementId", FALSE, "", "string"),
              F("IsVisible", "isVisible", TRUE, "", "*bool") >>
      [] T = "LayoutStack" ->
           << F("Key", "key", TRUE, "1.0", "string"),
              F("TargetWidth", "targetWidth", TRUE, "1.5", "*string") >>
      [] T = "LayoutAreaGrid" ->
           << F("Columns", "columns", TRUE, "1.5", "[]GridColumnWidth"),
              F("Key", "key", TRUE, "1.0", "string"),
              F("TargetWidth", "targetWidth", TRUE, "1.0", "*string") >>
      [] T = "GridColumnWidth" ->
           << F("Value", "-", FALSE, "", "any") >>
      [] T = "WorkflowConnectorCard" ->
           << F("Type", "type", FALSE, "", "string"),
              F("Attachments", "attachments", FALSE, "", "[]AdaptiveCardItem") >>
      [] T = "AdaptiveCardItem" ->
           << F("ContentType", "contentType", FALSE, "", "string"),
              F("ContentURL", "contentUrl", FALSE, "", "*string"),
              F("Content", "content", FALSE, "", "AdaptiveCard") >>
      [] T = "InputRating" ->
           << A("Common", "*Common"),
              F("AllowHalfSteps", "allowHalfSteps", TRUE, "", "bool"),
              F("Label", "label", TRUE, "1.3", "string") >>
      [] T = "InputText" ->
           << A("Common", "*Common"),
              F("IsMultiline", "isMultiline", TRUE, "", "bool"),
              F("Label", "label", TRUE, "1.3", "string") >>
      [] T = "ImBackSubmitActionData" ->
           << F("Value", "value", TRUE, "", "string"),
              F("Key", "key", TRUE, "", "string") >>
      [] T = "SubmitActionData" ->
           << F("MSTeams", "msteams", TRUE, "1.2", "ActionData"),
              F("Key", "key", TRUE, "", "string") >>
      [] OTHER -> << >>

StructTypes ==
    {"Common", "CommonActionProperties", "AdaptiveCard", "TextBlock", "Container",
     "ColumnSet", "Column", "Image", "Table", "TableColumnDefinition",
     "ActionOpenURL", "ActionPopover", "ActionToggleVisibility", "TargetElement",
     "LayoutStack", "LayoutAreaGrid", "GridColumnWidth", "WorkflowConnectorCard",
     "AdaptiveCardItem", "SubmitActionData"}

(* The interface types of the package and the empty interface. *)
Categories == {"Element", "Action", "ActionData", "Reference", "Layout", "RichTextInline"}

(* reflect.Kind of a static Go type. *)
TypeKind(t) ==
    CASE t \in {"string"} -> "string"
      [] t = "bool" -> "bool"
      [] t = "int" -> "int"
      [] t = "any" \/ t \in Categories -> "interface"
      [] t \in {"*string", "*bool", "*Layout", "*Element", "*Common",
                "*CommonActionProperties"} -> "ptr"
      [] t \in {"[]Element", "[]Action", "[]Layout", "[]Column", "[]TargetElement",
                "[]TableColumnDefinition", "[]AdaptiveCardItem",
                "[]GridColumnWidth"} -> "slice"
      [] OTHER -> "struct"

(* reflect.Type.Elem of a pointer or slice type. *)
TypeElem(t) ==
    CASE t = "*string" -> "string"
      [] t = "*bool" -> "bool"
      [] t = "*Layout" -> "Layout"
      [] t = "*Element" -> "Element"
      [] t = "*Common" -> "Common"
      [] t = "*CommonActionProperties" -> "CommonActionProperties"
      [] t = "[]Element" -> "Element"
      [] t = "[]Action" -> "Action"
      [] t = "[]Layout" -> "Layout"
      [] t = "[]Column" -> "Column"
      [] t = "[]TargetElement" -> "TargetElement"
      [] t = "[]TableColumnDefinition" -> "TableColumnDefinition"
      [] t = "[]AdaptiveCardItem" -> "AdaptiveCardItem"
      [] t = "[]GridColumnWidth" -> "GridColumnWidth"
      [] OTHER -> t

(* The struct types that declare the marker method of each interface. *)
ImplementedBy(c) ==
    CASE c = "Element" ->
           {"ActionSet", "Badge", "CodeBlock", "ColumnSet", "Column", "CompoundButton",
            "Container", "FactSet", "Icon", "Image", "ImageSet", "Media", "ProgressBar",
            "ProgressRing", "Rating", "RichTextBlock", "Table", "TextBlock",
            "InputChoiceSet", "InputDate", "InputNumber", "InputText", "InputTime",
            "InputToggle"}
      [] c = "Action" ->
           {"ActionExecute", "ActionInsertImage", "ActionOpenURL", "ActionOpenURLDialog",
            "ActionPopover", "ActionResetInputs", "ActionRunCommands", "ActionShowCard",
            "ActionSubmit", "ActionToggleVisibility"}
      [] c = "RichTextInline" -> {"TextRun", "CitationRun", "IconRun", "ImageRun"}
      [] c = "Reference" -> {"AdaptiveCardReference", "DocumentReference"}
      [] c = "Layout" -> {"LayoutStack", "LayoutFlow", "LayoutAreaGrid"}
      [] OTHER -> {}

(* reflect.Type.Implements: a struct or pointer-to-struct type implements an
   interface when it has its marker method; an interface type implements the
   interfaces whose methods it lists, i.e. itself. *)
Implements(t, c) ==
    IF TypeKind(t) = "interface" THEN t = c ELSE t \in ImplementedBy(c)

(* The types whose MarshalJSON calls SmartMarshalFromJSON. *)
SmartMarshalTypes ==
    {"AdaptiveCard", "AdaptiveCardReference", "DocumentReference", "ActionSet", "Badge",
     "CodeBlock", "ColumnSet", "Column", "CompoundButton", "Container", "FactSet", "Icon",
     "Image", "ImageSet", "Media", "CaptionSource", "MediaSource", "ProgressBar",
     "ProgressRing", "Rating", "RichTextBlock", "TextRun", "CitationRun", "IconRun",
     "ImageRun", "Table", "TableColumnDefinition", "TableRow", "TableCell", "TextBlock",
     "ActionExecute", "ActionInsertImage", "ActionOpenURL", "ActionOpenURLDialog",
     "ActionPopover", "ActionResetInputs", "ActionRunCommands", "ActionShowCard",
     "ActionSubmit", "ActionToggleVisibility", "ImBackSubmitActionData",
     "MessageBackSubmitActionData", "InvokeSubmitActionData", "SigninSubmitActionData",
     "InputChoiceSet", "InputChoice", "DataQuery", "InputDate", "InputNumber",
     "InputRating", "InputText", "InputTime", "InputToggle", "Refresh",
     "TokenExchangeResource", "Authentication", "Metadata", "Mention", "LayoutStack",
     "LayoutFlow", "LayoutAreaGrid", "WorkflowConnectorCard"}

(* The types whose UnmarshalJSON is SmartUnmarshalJSON. *)
SmartUnmarshalTypes == SmartMarshalTypes \cup {"TaskFetchSubmitActionData"}

(***************************************************************************)
(* The registry.  init() performs these registrations in this order; the   *)
(* Go runtime runs them before any other code of the program.              *)
(***************************************************************************)
InitRegistrations ==
    << <<"AdaptiveCard", "AdaptiveCard">>,
       <<"ActionSet", "ActionSet">>, <<"Badge", "Badge">>, <<"CodeBlock", "CodeBlock">>,
       <<"Container", "Container">>, <<"ColumnSet", "ColumnSet">>, <<"Column", "Column">>,
       <<"FactSet", "FactSet">>, <<"Icon", "Icon">>, <<"Image", "Image">>,
       <<"ImageSet", "ImageSet">>, <<"Media", "Media">>, <<"Rating", "Rating">>,
       <<"RichTextBlock", "RichTextBlock">>, <<"Table", "Table">>,
       <<"TextBlock", "TextBlock">>,
       <<"Input.ChoiceSet", "InputChoiceSet">>, <<"Input.Date", "InputDate">>,
       <<"Input.Number", "InputNumber">>, <<"Input.Rating", "InputRating">>,
       <<"Input.Text", "InputText">>, <<"Input.Time", "InputTime">>,
       <<"Input.Toggle", "InputToggle">>,
       <<"TextRun", "TextRun">>, <<"CitationRun", "CitationRun">>,
       <<"IconRun", "IconRun">>, <<"ImageRun", "ImageRun">>,
       <<"Action.Execute", "ActionExecute">>,
       <<"Action.InsertImage", "ActionInsertImage">>,
       <<"Action.OpenUrl", "ActionOpenURL">>,
       <<"Action.OpenUrlDialog", "ActionOpenURLDialog">>,
       <<"Action.Popover", "ActionPopover">>,
       <<"Action.ResetInputs", "ActionResetInputs">>,
       <<"Action.RunCommands", "ActionRunCommands">>,
       <<"Action.ShowCard", "ActionShowCard">>,
       <<"Action.Submit", "ActionSubmit">>,
       <<"Action.ToggleVisibility", "ActionToggleVisibility">>,
       <<"imBack", "ImBackSubmitActionData">>,
       <<"messageBack", "MessageBackSubmitActionData">>,
       <<"invoke", "InvokeSubmitActionData">>,
       <<"task/fetch", "TaskFetchSubmitActionData">>,
       <<"signin", "SigninSubmitActionData">>,
       <<"AdaptiveCardReference", "AdaptiveCardReference">>,
       <<"DocumentReference", "DocumentReference">>,
       <<"Layout.Stack", "LayoutStack">>, <<"Layout.Flow", "LayoutFlow">>,
       <<"Layout.AreaGrid", "LayoutAreaGrid">>,
       <<"StringResource", "StringResource">>,
       <<"message", "WorkflowConnectorCard">> >>

(* RegisterType: typeRegistry[typeName] = reflect.TypeOf(example). *)
RegisterType(reg, typeName, typ) == Put(reg, typeName, typ)

(* FindMapKey ranges over the map and returns the first key it meets whose
   value is the one sought; the iteration order of a Go map is unspecified,
   so every such key is a possible result. *)
FindMapKey(reg, typ) == {name \in DOMAIN reg : reg[name] = typ}

Ready == initIdx = Len(InitRegistrations)

(***************************************************************************)
(* Encoding.                                                               *)
(***************************************************************************)

(* isEmptyValue, by the reflect.Kind of the field. *)
isEmptyValue(kind, v) ==
    CASE kind \in {"slice", "string", "map"} ->
           \/ v = Nil
           \/ (v.k = "slice" /\ Len(v.a) = 0)
           \/ (v.k = "str" /\ v.s = "")
      [] kind = "bool" -> ~v.b
      [] kind = "int" -> v.n = 0
      [] kind \in {"interface", "ptr"} -> v = Nil
      [] OTHER -> FALSE

(* The one error the encoding side produces: SmartMarshalFromJSON finds no
   registry entry for the type of its argument. *)
ErrNotRegistered == Err("unable to find type in registry", << >>)

(* The outcome of encoding the parts of a composite with json.Marshal: the
   error of a part that fails, else the composite built from the parts. *)
CollectParts(rs, build(_)) ==
    IF \E i \in DOMAIN rs : rs[i].st # "ok"
    THEN CHOOSE r \in {rs[i] : i \in {j \in DOMAIN rs : rs[j].st # "ok"}} : TRUE
    ELSE Ok(build([i \in DOMAIN rs |-> rs[i].v]))
Collect(parts, build(_)) == Bind(parts, LAMBDA rs : CollectParts(rs, build))

RECURSIVE Marshal(_, _), SmartMarshalFromJSON(_, _), marshalWithType(_, _, _)
RECURSIVE DefaultMarshal(_, _)

(* The loop over the fields of an embedded struct, from field j on. *)
RECURSIVE EmbeddedFieldsInto(_, _, _)
EmbeddedFieldsInto(m, sv, j) ==
    IF j > Len(Fields(sv.T)) THEN m
    ELSE LET fd == Fields(sv.T)[j]
             val == sv.f[fd.name]
         IN  IF fd.key = "" \/ (fd.omit /\ isEmptyValue(TypeKind(fd.typ), val))
             THEN EmbeddedFieldsInto(m, sv, j + 1)
             ELSE EmbeddedFieldsInto(Put(m, fd.key, val), sv, j + 1)

(* The loop over the fields of the struct, from field i on. *)
RECURSIVE FieldsInto(_, _, _)
FieldsInto(m, sv, i) ==
    IF i > Len(Fields(sv.T)) THEN m
    ELSE LET fd == Fields(sv.T)[i]
             val == sv.f[fd.name]
             inner == IF val.k = "ptr" THEN val.v ELSE val
         IN  IF fd.anon
             THEN IF inner.k = "struct"
                  THEN FieldsInto(EmbeddedFieldsInto(m, inner, 1), sv, i + 1)
                  ELSE FieldsInto(m, sv, i + 1)
             ELSE IF fd.key = "" \/ (fd.omit /\ isEmptyValue(TypeKind(fd.typ), val))
                  THEN FieldsInto(m, sv, i + 1)
                  ELSE FieldsInto(Put(m, fd.key, val), sv, i + 1)

(* marshalWithType: the map starts with "type" and every field is then
   stored under its json key; json.Marshal encodes the map. *)
marshalWithType(reg, v, typeName) ==
    Bind(FieldsInto(Put(EmptyMap, "type", Str(typeName)), v, 1),
         LAMBDA m : Collect([key \in DOMAIN m |-> Marshal(reg, m[key])], JObj))

(* SmartMarshalFromJSON.  Under a registry that maps two names to the type
   the name FindMapKey returns is not determined; the encoding operators are
   applied only under the start-up registry, where it is. *)
SmartMarshalFromJSON(reg, v) ==
    IF FindMapKey(reg, v.T) = {} THEN ErrNotRegistered
    ELSE marshalWithType(reg, v, CHOOSE name \in FindMapKey(reg, v.T) : TRUE)

(* TargetElement.MarshalJSON. *)
TargetElementMarshalJSON(reg, t) ==
    IF t.f.IsVisible = Nil THEN Ok(JStr(t.f.ElementID.s))
    ELSE SmartMarshalFromJSON(reg, t)

(* encoding/json on a struct without a MarshalJSON method. *)
DefaultMarshal(reg, sv) ==
    LET fds == Fields(sv.T)
        kept == {i \in 1..Len(fds) :
                    /\ ~fds[i].anon
                    /\ ~(fds[i].omit /\ isEmptyValue(TypeKind(fds[i].typ), sv.f[fds[i].name]))}
        idx(key) == CHOOSE i \in kept : fds[i].key = key
    IN  Collect([key \in {fds[i].key : i \in kept} |-> Marshal(reg, sv.f[fds[idx(key)].name])],
                JObj)

(* json.Marshal: pointers are followed, a type with a MarshalJSON method is
   encoded by it, everything else by its kind. *)
Marshal(reg, v) ==
    CASE v.k = "nil" -> Ok(JNull)
      [] v.k = "str" -> Ok(JStr(v.s))
      [] v.k = "named" -> Ok(JStr(v.s))
      [] v.k = "bool" -> Ok(JBool(v.b))
      [] v.k = "int" -> Ok(JNum(v.n, TRUE))
      [] v.k = "float" -> Ok(JNum(v.n, v.whole))
      [] v.k = "ptr" -> Marshal(reg, v.v)
      [] v.k = "slice" -> Collect([i \in 1..Len(v.a) |-> Marshal(reg, v.a[i])], JArr)
      [] v.k = "map" -> Collect([key \in DOMAIN v.m |-> Marshal(reg, v.m[key])], JObj)
      [] v.k = "struct" ->
           IF v.T = "TargetElement" THEN TargetElementMarshalJSON(reg, v)
           ELSE IF v.T = "GridColumnWidth" THEN Marshal(reg, v.f.Value)
           ELSE IF v.T \in SmartMarshalTypes THEN SmartMarshalFromJSON(reg, v)
           ELSE DefaultMarshal(reg, v)


(***************************************************************************)
(* Decoding.                                                               *)
(***************************************************************************)

FieldNames(T) == {Fields(T)[i].name : i \in 1..Len(Fields(T))}
FieldOf(T, name) == Fields(T)[CHOOSE i \in 1..Len(Fields(T)) : Fields(T)[i].name = name]

(* reflect.New(t).Elem(): the zero value of a type. *)
RECURSIVE ZeroValue(_)
ZeroValue(t) ==
    CASE TypeKind(t) = "string" -> Str("")
      [] TypeKind(t) = "bool" -> Bool(FALSE)
      [] TypeKind(t) = "int" -> GoInt(0)
      [] TypeKind(t) \in {"interface", "ptr", "slice"} -> Nil
      [] OTHER -> Struct(t, [name \in FieldNames(t) |-> ZeroValue(FieldOf(t, name).typ)])

(* The first outcome, in index order, that is not a success; rs is a
   sequence of outcomes of which at least one is not a success. *)
FirstFailure(rs) ==
    rs[CHOOSE i \in 1..Len(rs) : rs[i].st # "ok" /\ \A j \in 1..(i - 1) : rs[j].st = "ok"]

AllOk(rs) == \A i \in 1..Len(rs) : rs[i].st = "ok"

(* The "type" member that json.Unmarshal stores into an AdaptiveCardType. *)
CardTypeOk(raw) ==
    \/ raw.k = "jnull"
    \/ /\ raw.k = "jobj"
       /\ "type" \in DOMAIN raw.o => raw.o["type"].k \in {"jstr", "jnull"}
CardType(raw) ==
    IF raw.k = "jobj" /\ "type" \in DOMAIN raw.o /\ raw.o["type"].k = "jstr"
    THEN raw.o["type"].s ELSE ""

(* ValidateType returns nil. *)
ValidateType(reg, raw, t) ==
    /\ CardTypeOk(raw)
    /\ TypeKind(t) # "interface"
    /\ FindMapKey(reg, TypeElem(t)) # {}
    /\ CardType(raw) # "" => CardType(raw) = CHOOSE name \in FindMapKey(reg, TypeElem(t)) : TRUE

(* ValidateTypes returns nil. *)
ValidateTypes(reg, raws, t) ==
    \A i \in 1..Len(raws) : ValidateType(reg, raws[i], TypeElem(t))

(* The interfaces of sliceUnmarshalers and singleUnmarshalers, in order. *)
Unmarshalers == <<"Element", "Action", "ActionData", "Reference", "Layout", "RichTextInline">>
HasUnmarshaler(t) == \E i \in 1..Len(Unmarshalers) : Implements(t, Unmarshalers[i])
UnmarshalerFor(t) ==
    Unmarshalers[CHOOSE i \in 1..Len(Unmarshalers) :
                    /\ Implements(t, Unmarshalers[i])
                    /\ \A j \in 1..(i - 1) : ~Implements(t, Unmarshalers[j])]

RECURSIVE StdUnmarshal(_, _, _, _), SmartUnmarshalJSON(_, _, _), FieldLoop(_, _, _, _)
RECURSIVE smartUnmarshalSingleField(_, _, _, _), reflectUnmarshaling(_, _)
RECURSIVE StdFieldLoop(_, _, _, _), Generic(_)

(* json.Unmarshal into an interface{}: the generic Go form of a JSON value. *)
Generic(j) ==
    CASE j.k = "jnull" -> Nil
      [] j.k = "jstr" -> Str(j.s)
      [] j.k = "jbool" -> Bool(j.b)
      [] j.k = "jnum" -> Float(j.n, j.whole)
      [] j.k = "jarr" -> Slice([i \in 1..Len(j.a) |-> Generic(j.a[i])])
      [] j.k = "jobj" -> GoMap([key \in DOMAIN j.o |-> Generic(j.o[key])])

ErrJSONType == Err("json: cannot unmarshal", << >>)
ErrUnknown == Err("unknown type", << >>)
(* errors.As(err, &AdaptiveCardErrorUnknown{}). *)
IsUnknown(r) == r.st = "err" /\ r.e = "unknown type"

(* TargetElement.UnmarshalJSON.  When the bytes are not a JSON string (or
   null) the second json.Unmarshal is given &t, a **TargetElement; the
   decoder follows it to the *TargetElement, finds this same method and
   calls it with the same bytes, so the call never returns: the goroutine
   stack grows until the runtime aborts the process. *)
TargetElementUnmarshalJSON(reg, j, t) ==
    IF j.k = "jstr" THEN Ok([t EXCEPT !.f.ElementID = Str(j.s)])
    ELSE IF j.k = "jnull" THEN Ok(t)
    ELSE Overflow

(* The characters of the strings a grid column width is given as. *)
WidthChars(s) ==
    CASE s = "50px" -> <<"5", "0", "p", "x">>
      [] s = "px" -> <<"p", "x">>
      [] s = "50" -> <<"5", "0">>
      [] s = "a" -> <<"a">>
      [] OTHER -> << >>

(* strings.HasSuffix. *)
HasSuffix(cs, suffix) ==
    /\ Len(cs) >= Len(suffix)
    /\ SubSeq(cs, Len(cs) - Len(suffix) + 1, Len(cs)) = suffix

(* The int of the model has IntBits bits. *)
IntBits == 8
MinInt == 0 - 2 ^ (IntBits - 1)
MaxInt == 2 ^ (IntBits - 1) - 1
Architectures == {"amd64", "arm64"}

(* int(v) for a float64 v that is a whole number.  When v is outside the
   range of int the result depends on the implementation: the conversion
   instruction of amd64 yields the smallest int, that of arm64 saturates. *)
IntOfFloat(n) ==
    IF MinInt <= n /\ n <= MaxInt THEN n
    ELSE IF arch = "amd64" THEN MinInt
    ELSE IF n > MaxInt THEN MaxInt ELSE MinInt

(* float64(i).  Of the ints IntOfFloat yields only MaxInt has more
   significant bits than a float64 holds; it rounds to the next power of
   two. *)
FloatOfInt(i) == IF i = MaxInt THEN MaxInt + 1 ELSE i

(* GridColumnWidth.UnmarshalJSON. *)
GridColumnWidthUnmarshalJSON(j, w) ==
    CASE j.k = "jnum" ->
           IF ~j.whole \/ j.n # FloatOfInt(IntOfFloat(j.n))
           THEN Err("invalid value: GridColumnWidth must be a whole number", << >>)
           ELSE Ok([w EXCEPT !.f.Value = GoInt(IntOfFloat(j.n))])
      [] j.k = "jstr" ->
           IF ~HasSuffix(WidthChars(j.s), <<"p", "x">>)
           THEN Err("invalid format: string values must end in 'px'", << >>)
           ELSE Ok([w EXCEPT !.f.Value = Str(j.s)])
      [] OTHER -> Err("invalid type for GridColumnWidth", << >>)

(* encoding/json on a struct without an UnmarshalJSON method, member i on. *)
StdFieldLoop(reg, o, sv, i) ==
    IF i > Len(Fields(sv.T)) THEN Ok(sv)
    ELSE LET fd == Fields(sv.T)[i]
         IN  IF fd.anon \/ fd.key \notin DOMAIN o THEN StdFieldLoop(reg, o, sv, i + 1)
             ELSE Bind(StdUnmarshal(reg, fd.typ, o[fd.key], sv.f[fd.name]),
                       LAMBDA r : IF r.st # "ok" THEN r
                                  ELSE Bind([sv EXCEPT !.f[fd.name] = r.v],
                                            LAMBDA sv2 : StdFieldLoop(reg, o, sv2, i + 1)))

(* json.Unmarshal(j, &dst) for a dst of static type t holding cur. *)
StdUnmarshal(reg, t, j, cur) ==
    CASE TypeKind(t) = "struct" ->
           IF t = "TargetElement" THEN TargetElementUnmarshalJSON(reg, j, cur)
           ELSE IF t = "GridColumnWidth" THEN GridColumnWidthUnmarshalJSON(j, cur)
           ELSE IF t \in SmartUnmarshalTypes THEN SmartUnmarshalJSON(reg, j, cur)
           ELSE IF j.k = "jnull" THEN Ok(cur)
           ELSE IF j.k = "jobj" THEN StdFieldLoop(reg, j.o, cur, 1)
           ELSE ErrJSONType
      [] TypeKind(t) = "string" ->
           IF j.k = "jstr" THEN Ok(Str(j.s))
           ELSE IF j.k = "jnull" THEN Ok(cur) ELSE ErrJSONType
      [] TypeKind(t) = "bool" ->
           IF j.k = "jbool" THEN Ok(Bool(j.b))
           ELSE IF j.k = "jnull" THEN Ok(cur) ELSE ErrJSONType
      [] TypeKind(t) = "int" ->
           IF j.k = "jnum" /\ j.whole /\ MinInt <= j.n /\ j.n <= MaxInt THEN Ok(GoInt(j.n))
           ELSE IF j.k = "jnull" THEN Ok(cur) ELSE ErrJSONType
      [] TypeKind(t) = "ptr" ->
           IF j.k = "jnull" THEN Ok(Nil)
           ELSE Bind(StdUnmarshal(reg, TypeElem(t), j,
                                  IF cur = Nil THEN ZeroValue(TypeElem(t)) ELSE cur.v),
                     LAMBDA r : IF r.st = "ok" THEN Ok(Ptr(r.v)) ELSE r)
      [] TypeKind(t) = "slice" ->
           IF j.k = "jnull" THEN Ok(Nil)
           ELSE IF j.k = "jarr"
           THEN Bind([i \in 1..Len(j.a) |->
                        StdUnmarshal(reg, TypeElem(t), j.a[i], ZeroValue(TypeElem(t)))],
                     LAMBDA rs : IF AllOk(rs) THEN Ok(Slice([i \in 1..Len(rs) |-> rs[i].v]))
                                 ELSE FirstFailure(rs))
           ELSE ErrJSONType
      [] TypeKind(t) = "interface" ->
           IF t = "any" THEN Ok(Generic(j))
           ELSE IF j.k = "jnull" THEN Ok(Nil) ELSE ErrJSONType

(* reflectUnmarshaling: a pointer to a new value of the registered type. *)
reflectUnmarshaling(reg, raw) ==
    IF ~CardTypeOk(raw) THEN Wrap(ErrJSONType, "failed to detect element type", "")
    ELSE IF CardType(raw) \notin DOMAIN reg THEN ErrUnknown
    ELSE Bind(StdUnmarshal(reg, reg[CardType(raw)], raw, ZeroValue(reg[CardType(raw)])),
              LAMBDA r : IF r.st = "ok" THEN Ok(Ptr(r.v))
                         ELSE Wrap(r, "failed to unmarshal", CardType(raw)))

(* dynamicUnmarshaling[T], T the interface c. *)
dynamicUnmarshaling(reg, raw, c) ==
    Bind(reflectUnmarshaling(reg, raw),
         LAMBDA r : IF r.st # "ok" THEN r
                    ELSE IF Implements(r.v.v.T, c) THEN r
                    ELSE Err("does not implement interface", << >>))

(* unmarshalMessage[T]: an unknown type leaves *data nil. *)
unmarshalMessage(reg, raw, c) ==
    Bind(dynamicUnmarshaling(reg, raw, c),
         LAMBDA r : IF IsUnknown(r) THEN Ok(Nil) ELSE Wrap(r, "failed to unmarshal", c))

(* Appended without the continue: an unknown type appends the zero item. *)
AppendedWithUnknown(rs, i) ==
    [n \in 1..(Len(rs) - i + 1) |->
        IF IsUnknown(rs[n + i - 1]) THEN Nil ELSE rs[n + i - 1].v]

(* The items unmarshalMessages appends: the results that are not unknown. *)
RECURSIVE Appended(_, _)
Appended(rs, i) ==
    IF i > Len(rs) THEN << >>
    ELSE IF IsUnknown(rs[i]) THEN Appended(rs, i + 1)
    ELSE <<rs[i].v>> \o Appended(rs, i + 1)

(* unmarshalMessages[T]: unknown types are skipped. *)
unmarshalMessages(reg, raws, c) ==
    Bind([i \in 1..Len(raws) |-> dynamicUnmarshaling(reg, raws[i], c)],
         LAMBDA rs :
            LET seen == [i \in 1..Len(raws) |-> IF IsUnknown(rs[i]) THEN Ok(Nil) ELSE rs[i]]
            IN  IF AllOk(seen) THEN Ok(Slice(Appended(rs, 1)))
                ELSE Wrap(FirstFailure(seen), "failed to unmarshal type at index", c))

(* unmarshalSlice: every element through json.Unmarshal. *)
unmarshalSlice(reg, raws, t) ==
    Bind([i \in 1..Len(raws) |->
             StdUnmarshal(reg, TypeElem(t), raws[i], ZeroValue(TypeElem(t)))],
         LAMBDA rs : IF AllOk(rs) THEN Ok(Slice([i \in 1..Len(rs) |-> rs[i].v]))
                     ELSE Wrap(FirstFailure(rs), "failed to unmarshal slice element",
                               TypeElem(t)))

(* unmarshalSingle. *)
unmarshalSingle(reg, raw, t) ==
    Wrap(StdUnmarshal(reg, t, raw, ZeroValue(t)), "failed to unmarshal", t)

(* unmarshalSliceField.  The value a sliceUnmarshaler returns is a slice of
   its interface; reflect.Value.Set panics unless that is the field's type. *)
unmarshalSliceField(reg, raws, t) ==
    IF ValidateTypes(reg, raws, t) THEN unmarshalSlice(reg, raws, t)
    ELSE IF HasUnmarshaler(TypeElem(t))
    THEN Bind(unmarshalMessages(reg, raws, UnmarshalerFor(TypeElem(t))),
              LAMBDA r : IF r.st # "ok" THEN r
                         ELSE IF TypeElem(t) = UnmarshalerFor(TypeElem(t)) THEN r
                         ELSE Panic)
    ELSE unmarshalSlice(reg, raws, t)

(* unmarshalSingleField into a field of type t holding cur: the new value
   of the field. *)
unmarshalSingleField(reg, raw, t, cur) ==
    IF ValidateType(reg, raw, t) THEN unmarshalSingle(reg, raw, t)
    ELSE IF HasUnmarshaler(t)
    THEN Bind(unmarshalMessage(reg, raw, UnmarshalerFor(t)),
              LAMBDA r : IF r.st # "ok" THEN r
                         ELSE IF r.v = Nil THEN Ok(cur)
                         ELSE IF t = UnmarshalerFor(t) THEN r
                         ELSE Panic)
    ELSE unmarshalSingle(reg, raw, t)

(* unmarshalFallbackAttempts with the Element attempt made before the
   string attempt. *)
Attempt(shape, r) == [shape |-> shape, r |-> r]
unmarshalFallbackElementFirst(reg, raw) ==
    Bind(Attempt("Element", unmarshalMessage(reg, raw, "Element")),
         LAMBDA e :
            IF e.r.st # "err" THEN <<e>>
            ELSE Bind(Attempt("FallbackOption",
                              IF raw.k = "jstr" THEN Ok(Named("FallbackOption", raw.s))
                              ELSE IF raw.k = "jnull" THEN Ok(Named("FallbackOption", ""))
                              ELSE ErrJSONType),
                      LAMBDA s :
                         IF s.r.st # "err" THEN <<e, s>>
                         ELSE <<e, s, Attempt("Action",
                                              unmarshalMessage(reg, raw, "Action"))>>))

(* The attempts unmarshalFallback makes, in the order it makes them, each
   with the shape tried and its outcome; an attempt is made only when every
   earlier one returned an error. *)
unmarshalFallbackAttempts(reg, raw) ==
    Bind(Attempt("FallbackOption",
                 IF raw.k = "jstr" THEN Ok(Named("FallbackOption", raw.s))
                 ELSE IF raw.k = "jnull" THEN Ok(Named("FallbackOption", ""))
                 ELSE ErrJSONType),
         LAMBDA s :
            IF s.r.st # "err" THEN <<s>>
            ELSE Bind(Attempt("Element", unmarshalMessage(reg, raw, "Element")),
                      LAMBDA e :
                         IF e.r.st # "err" THEN <<s, e>>
                         ELSE <<s, e, Attempt("Action",
                                              unmarshalMessage(reg, raw, "Action"))>>))

(* unmarshalFallback: the value of the first attempt that returned no error,
   else the error that names the three shapes. *)
unmarshalFallback(reg, raw) ==
    Bind(unmarshalFallbackAttempts(reg, raw),
         LAMBDA as :
            IF as[Len(as)].r.st # "err" THEN as[Len(as)].r
            ELSE Err("fallback must be either FallbackOption, Element, or Action", << >>))

(* unmarshalSliceFieldFromRaw. *)
unmarshalSliceFieldFromRaw(reg, raw, t, cur, fieldName) ==
    IF raw.k = "jarr"
    THEN Wrap(unmarshalSliceField(reg, raw.a, t), "failed to unmarshal slice field", fieldName)
    ELSE IF raw.k = "jnull"
    THEN Wrap(unmarshalSliceField(reg, << >>, t), "failed to unmarshal slice field", fieldName)
    ELSE StdUnmarshal(reg, t, raw, cur)

(* unmarshalInterfaceFieldFromRaw.  reflect.ValueOf of a nil interface is
   the zero Value, and reflect.Value.Set panics on it. *)
unmarshalInterfaceFieldFromRaw(reg, raw, t, cur, fieldName) ==
    IF fieldName = "fallback"
    THEN Bind(unmarshalFallback(reg, raw),
              LAMBDA r : IF r.st # "ok"
                         THEN Wrap(r, "failed to unmarshal fallback field", fieldName)
                         ELSE IF r.v = Nil THEN Panic
                         ELSE r)
    ELSE Wrap(unmarshalSingleField(reg, raw, t, cur),
              "failed to unmarshal interface field", fieldName)

(* unmarshalPointerFieldFromRaw: the field is always set to the new pointer. *)
unmarshalPointerFieldFromRaw(reg, raw, t, fieldName) ==
    IF TypeKind(TypeElem(t)) = "interface"
    THEN Bind(unmarshalSingleField(reg, raw, TypeElem(t), Nil),
              LAMBDA r : IF r.st = "ok" THEN Ok(Ptr(r.v))
                         ELSE Wrap(r, "failed to unmarshal pointer-to-interface field",
                                   fieldName))
    ELSE Bind(StdUnmarshal(reg, TypeElem(t), raw, ZeroValue(TypeElem(t))),
              LAMBDA r : IF r.st = "ok" THEN Ok(Ptr(r.v))
                         ELSE Wrap(r, "failed to unmarshal pointer field", fieldName))

(* hasEmbeddedFields. *)
hasEmbeddedFields(embeddedType, rawFields) ==
    \E i \in 1..Len(Fields(embeddedType)) :
        /\ Fields(embeddedType)[i].key # ""
        /\ Fields(embeddedType)[i].key \in DOMAIN rawFields

(* smartUnmarshalAnonymousField, with unmarshalEmbeddedFields. *)
smartUnmarshalAnonymousField(reg, rawFields, sv, i) ==
    LET fd == Fields(sv.T)[i]
        cur == sv.f[fd.name]
        embedded == IF TypeKind(fd.typ) # "ptr" THEN cur
                    ELSE IF cur = Nil THEN ZeroValue(TypeElem(fd.typ)) ELSE cur.v
    IN  IF TypeKind(fd.typ) = "ptr" /\ ~hasEmbeddedFields(TypeElem(fd.typ), rawFields)
        THEN Ok(sv)
        ELSE Bind(embedded, LAMBDA e :
                Bind(FieldLoop(reg, rawFields, e, 1),
                     LAMBDA r : IF r.st # "ok" THEN r
                                ELSE Ok([sv EXCEPT !.f[fd.name] =
                                           IF TypeKind(fd.typ) = "ptr" THEN Ptr(r.v) ELSE r.v])))

(* smartUnmarshalSingleField: field i of the struct value sv. *)
smartUnmarshalSingleField(reg, rawFields, sv, i) ==
    LET fd == Fields(sv.T)[i]
        cur == sv.f[fd.name]
        raw == rawFields[fd.key]
        field == CASE TypeKind(fd.typ) = "slice" ->
                        unmarshalSliceFieldFromRaw(reg, raw, fd.typ, cur, fd.key)
                   [] TypeKind(fd.typ) = "interface" ->
                        unmarshalInterfaceFieldFromRaw(reg, raw, fd.typ, cur, fd.key)
                   [] TypeKind(fd.typ) = "ptr" ->
                        unmarshalPointerFieldFromRaw(reg, raw, fd.typ, fd.key)
                   [] OTHER ->
                        Wrap(StdUnmarshal(reg, fd.typ, raw, cur),
                             "failed to unmarshal field", fd.key)
    IN  IF fd.anon THEN smartUnmarshalAnonymousField(reg, rawFields, sv, i)
        ELSE IF fd.key = "" \/ fd.key \notin DOMAIN rawFields THEN Ok(sv)
        ELSE Bind(field, LAMBDA r : IF r.st # "ok" THEN r
                                    ELSE Ok([sv EXCEPT !.f[fd.name] = r.v]))

(* The loop over the fields of a struct, from field i on. *)
FieldLoop(reg, rawFields, sv, i) ==
    IF i > Len(Fields(sv.T)) THEN Ok(sv)
    ELSE Bind(smartUnmarshalSingleField(reg, rawFields, sv, i),
              LAMBDA r : IF r.st # "ok" THEN r ELSE FieldLoop(reg, rawFields, r.v, i + 1))

(* SmartUnmarshalJSON: the error of decoding the bytes into the map of raw
   members is returned as it is; the "type" member is not compared with the
   type of the target. *)
SmartUnmarshalJSON(reg, j, target) ==
    IF j.k = "jobj" THEN FieldLoop(reg, j.o, target, 1)
    ELSE IF j.k = "jnull" THEN FieldLoop(reg, EmptyMap, target, 1)
    ELSE ErrJSONType

(* json.Unmarshal(data, &target) as a caller of the package invokes it: the
   bytes are checked to be JSON before any method of the target runs. *)
Unmarshal(reg, t, j) ==
    IF j = JBad THEN Err("invalid character", << >>)
    ELSE Bind(ZeroValue(t), LAMBDA target : StdUnmarshal(reg, t, j, target))

(***************************************************************************)
(* The version validator.  A version string is read character by           *)
(* character; Chars gives the characters of the strings the model uses.    *)
(***************************************************************************)
Chars(s) ==
    CASE s = "1.0" -> <<"1", ".", "0">>
      [] s = "1.1" -> <<"1", ".", "1">>
      [] s = "1.2" -> <<"1", ".", "2">>
      [] s = "1.5" -> <<"1", ".", "5">>
      [] s = "1.6" -> <<"1", ".", "6">>
      [] s = "2.0" -> <<"2", ".", "0">>
      [] s = "1.10" -> <<"1", ".", "1", "0">>
      [] s = "0.9" -> <<"0", ".", "9">>
      [] s = "+1.5" -> <<"+", "1", ".", "5">>
      [] s = "-1.0" -> <<"-", "1", ".", "0">>
      [] s = "1.-2" -> <<"1", ".", "-", "2">>
      [] s = "1" -> <<"1">>
      [] s = "1.2.3" -> <<"1", ".", "2", ".", "3">>
      [] s = "1." -> <<"1", ".">>
      [] s = "a.b" -> <<"a", ".", "b">>
      [] OTHER -> << >>

(* strings.Split(v, "."). *)
RECURSIVE Split(_)
Split(cs) ==
    IF \A i \in 1..Len(cs) : cs[i] # "." THEN <<cs>>
    ELSE LET i == CHOOSE n \in 1..Len(cs) : cs[n] = "." /\ \A m \in 1..(n - 1) : cs[m] # "."
         IN  <<SubSeq(cs, 1, i - 1)>> \o Split(SubSeq(cs, i + 1, Len(cs)))

DigitValue(c) ==
    CASE c = "0" -> 0 [] c = "1" -> 1 [] c = "2" -> 2 [] c = "3" -> 3 [] c = "4" -> 4
      [] c = "5" -> 5 [] c = "6" -> 6 [] c = "7" -> 7 [] c = "8" -> 8 [] c = "9" -> 9
      [] OTHER -> -1

RECURSIVE DecimalValue(_)
DecimalValue(ds) ==
    IF ds = << >> THEN 0
    ELSE 10 * DecimalValue(SubSeq(ds, 1, Len(ds) - 1)) + DigitValue(ds[Len(ds)])

(* strconv.Atoi: an optional sign, then one or more decimal digits. *)
Atoi(cs) ==
    LET signed == Len(cs) > 0 /\ cs[1] \in {"+", "-"}
        ds == IF signed THEN Tail(cs) ELSE cs
    IN  IF Len(ds) = 0 \/ \E i \in 1..Len(ds) : DigitValue(ds[i]) < 0
        THEN [ok |-> FALSE, n |-> 0]
        ELSE [ok |-> TRUE,
              n |-> IF signed /\ cs[1] = "-" THEN 0 - DecimalValue(ds) ELSE DecimalValue(ds)]

Version(major, minor) == [Major |-> major, Minor |-> minor]

(* ParseVersion. *)
ParseVersion(v) ==
    LET parts == Split(Chars(v))
    IN  IF Len(parts) # 2 \/ ~Atoi(parts[1]).ok \/ ~Atoi(parts[2]).ok
        THEN [ok |-> FALSE, ver |-> Version(0, 0)]
        ELSE [ok |-> TRUE, ver |-> Version(Atoi(parts[1]).n, Atoi(parts[2]).n)]

(* Version.Compare without the comparison of the minor numbers. *)
CompareMajor(v, other) ==
    IF v.Major < other.Major THEN -1
    ELSE IF v.Major > other.Major THEN 1
    ELSE 0

(* Version.Compare. *)
Compare(v, other) ==
    IF v.Major < other.Major THEN -1
    ELSE IF v.Major > other.Major THEN 1
    ELSE IF v.Minor < other.Minor THEN -1
    ELSE IF v.Minor > other.Minor THEN 1
    ELSE 0

(* Version.SupportsVersion with a strict comparison. *)
SupportsVersionStrict(v, required) == Compare(v, required) > 0

(* Version.SupportsVersion. *)
SupportsVersion(v, required) == Compare(v, required) >= 0

(* isZeroValue holding no value to be zero. *)
isZeroValueNever(kind, v) == FALSE

(* isZeroValue, by the reflect.Kind of the field. *)
isZeroValue(kind, v) ==
    CASE kind \in {"slice", "string", "map"} ->
           \/ v = Nil
           \/ (v.k = "slice" /\ Len(v.a) = 0)
           \/ (v.k = "str" /\ v.s = "")
      [] kind = "bool" -> ~v.b
      [] kind = "int" -> v.n = 0
      [] kind \in {"interface", "ptr"} -> v = Nil
      [] OTHER -> FALSE

ValidationError(fieldName, required, cardVersion) ==
    [FieldName |-> fieldName, RequiredVersion |-> required, CardVersion |-> cardVersion]

(* fmt.Sprintf("%s[%d]", fieldName, j) and prefix + "." + name: a field name
   is kept as the sequence of its parts. *)
ItemName(fieldName, j) == Append(fieldName, "[" \o ToString(j) \o "]")

RECURSIVE validateStruct(_, _, _, _), validateFields(_, _, _, _), validateItems(_, _, _, _, _)

(* The loop of validateStruct over the items of a slice field, item j on
   (1-based here, 0-based in the name). *)
validateItems(a, elemType, cardVersion, fieldName, j) ==
    IF j > Len(a) THEN << >>
    ELSE validateStruct(a[j], elemType, cardVersion, ItemName(fieldName, j - 1))
         \o validateItems(a, elemType, cardVersion, fieldName, j + 1)

(* The loop of validateStruct over the fields of a struct, field i on. *)
validateFields(sv, cardVersion, prefix, i) ==
    IF i > Len(Fields(sv.T)) THEN << >>
    ELSE LET fd == Fields(sv.T)[i]
             field == sv.f[fd.name]
             fieldName == Append(prefix, fd.name)
             own == IF /\ fd.ver # ""
                       /\ ~isZeroValue(TypeKind(fd.typ), field)
                       /\ ParseVersion(fd.ver).ok
                       /\ ~SupportsVersion(cardVersion, ParseVersion(fd.ver).ver)
                    THEN <<ValidationError(fieldName, ParseVersion(fd.ver).ver, cardVersion)>>
                    ELSE << >>
             nested == CASE TypeKind(fd.typ) = "struct" ->
                              validateStruct(field, fd.typ, cardVersion, fieldName)
                         [] TypeKind(fd.typ) = "ptr" /\ field # Nil ->
                              validateStruct(field, fd.typ, cardVersion, fieldName)
                         [] TypeKind(fd.typ) = "slice" /\ field # Nil ->
                              validateItems(field.a, TypeElem(fd.typ), cardVersion, fieldName, 1)
                         [] OTHER -> << >>
         IN  own \o nested \o validateFields(sv, cardVersion, prefix, i + 1)

(* validateStruct on a reflect.Value of static type t: pointers are followed,
   and a value whose kind is then not Struct (an interface value included)
   yields no errors. *)
validateStruct(val, t, cardVersion, prefix) ==
    CASE TypeKind(t) = "ptr" ->
           IF val = Nil THEN << >>
           ELSE validateStruct(val.v, TypeElem(t), cardVersion, prefix)
      [] TypeKind(t) = "struct" -> validateFields(val, cardVersion, prefix, 1)
      [] OTHER -> << >>

(* ValidateVersion without the return on a version that does not parse. *)
ValidateVersionUnparsed(v, cardVersion) ==
    validateFields(IF v.k = "ptr" THEN v.v ELSE v, ParseVersion(cardVersion).ver, << >>, 1)

(* ValidateVersion(v, cardVersion), v a struct or a pointer to one. *)
ValidateVersion(v, cardVersion) ==
    IF ~ParseVersion(cardVersion).ok
    THEN <<ValidationError(<<"version">>, Version(0, 0), ParseVersion(cardVersion).ver)>>
    ELSE validateFields(IF v.k = "ptr" THEN v.v ELSE v, ParseVersion(cardVersion).ver, << >>, 1)

(***************************************************************************)
(* The values and payloads the operations are applied to.                  *)
(***************************************************************************)
MaxItems == 2
MaxGoroutines == 2

SeqsUpTo(S, n) == UNION {[1..m -> S] : m \in 0..n}

(* A struct value given by its non-zero fields. *)
With(T, fs) == Struct(T, fs @@ ZeroValue(T).f)

StyledText == With("TextBlock", [Text |-> Ptr(Str("hi")), Style |-> Ptr(Str("heading"))])
RightToLeftCard == With("AdaptiveCard", [Version |-> Str("1.0"), RTL |-> Ptr(Bool(TRUE))])
BareTarget == With("TargetElement", [ElementID |-> Str("a")])
FlaggedTarget == With("TargetElement", [ElementID |-> Str("a"), IsVisible |-> Ptr(Bool(TRUE))])

ElementPool ==
    { With("TextBlock", [Text |-> Ptr(Str("hi"))]),
      Ptr(With("TextBlock", [Text |-> Ptr(Str("hi"))])),
      Ptr(StyledText),
      Ptr(With("Image", [URL |-> Str("u")])) }
ActionPool ==
    { Ptr(With("ActionOpenURL", [URL |-> Str("u")])),
      Ptr(With("ActionToggleVisibility", [TargetElements |-> Slice(<<BareTarget>>)])) }
LayoutPool ==
    { Ptr(With("LayoutStack", [TargetWidth |-> Ptr(Str("wide"))])) }
ColumnPool ==
    { ZeroValue("Column"),
      With("Column", [Items |-> Slice(<<Ptr(StyledText)>>)]),
      With("Column", [RoundedCorners |-> Bool(TRUE)]) }
VersionStrings == {"0.9", "1.0", "1.1", "1.2", "1.5", "1.6", "2.0", "1.10"}
SignedVersionStrings == {"+1.5", "1.-2", "-1.0"}
BadVersionStrings == {"", "1", "1.2.3", "1.", "a.b"}

(* The non-zero values a field of type t with json key key is given. *)
ValuesOf(t, key) ==
    CASE t = "string" -> IF key = "version" THEN {Str(v) : v \in VersionStrings}
                         ELSE {Str("a")}
      [] t = "bool" -> {Bool(TRUE)}
      [] t = "*string" -> {Ptr(Str("a")), Ptr(Str(""))}
      [] t = "*bool" -> {Ptr(Bool(TRUE)), Ptr(Bool(FALSE))}
      [] t = "any" -> IF key = "fallback"
                      THEN {Named("FallbackOption", "drop"), Str("drop"), Ptr(StyledText)}
                      ELSE IF key = "-" THEN {GoInt(1), Str("50px")}
                      ELSE {Str("auto"), Str("")}
      [] t = "Element" -> ElementPool
      [] t = "Action" -> ActionPool
      [] t = "Layout" -> LayoutPool
      [] t = "*Layout" -> {Ptr(l) : l \in LayoutPool \cup {Nil}}
      [] t = "*Element" -> {Ptr(e) : e \in ElementPool \cup {Nil}}
      [] t = "*Common" ->
           {Ptr(ZeroValue("Common")), Ptr(With("Common", [ID |-> Str("a")])),
            Ptr(With("Common", [IsVisible |-> Bool(TRUE)])),
            Ptr(With("Common", [Height |-> Ptr(Str("stretch"))]))}
      [] t = "*CommonActionProperties" ->
           {Ptr(With("CommonActionProperties", [Title |-> Str("a")])),
            Ptr(With("CommonActionProperties", [Tooltip |-> Str("a")]))}
      [] t = "[]Element" -> {Slice(a) : a \in SeqsUpTo(ElementPool, MaxItems)}
      [] t = "[]Action" -> {Slice(a) : a \in SeqsUpTo(ActionPool, MaxItems)}
      [] t = "[]Layout" -> {Slice(a) : a \in SeqsUpTo(LayoutPool, MaxItems)}
      [] t = "[]Column" -> {Slice(a) : a \in SeqsUpTo(ColumnPool, MaxItems)}
      [] t = "[]TargetElement" ->
           {Slice(a) : a \in SeqsUpTo({BareTarget, FlaggedTarget}, MaxItems)}
      [] t = "[]GridColumnWidth" ->
           {Slice(a) : a \in SeqsUpTo({With("GridColumnWidth", [Value |-> GoInt(1)]),
                                       With("GridColumnWidth", [Value |-> Str("50px")])},
                                      MaxItems)}
      [] t = "[]TableColumnDefinition" ->
           {Slice(a) : a \in SeqsUpTo({With("TableColumnDefinition", [Key |-> Str("a")])},
                                      MaxItems)}
      [] t = "[]AdaptiveCardItem" ->
           {Slice(a) : a \in SeqsUpTo({With("AdaptiveCardItem",
                                            [ContentType |-> Str("a"),
                                             Content |-> With("AdaptiveCard",
                                                              [Version |-> Str("1.5")])])},
                                      MaxItems)}
      [] t = "AdaptiveCard" -> {With("AdaptiveCard", [Version |-> Str("1.5")])}
      [] OTHER -> {}

(* The values of struct type T: the zero value and every value with one
   field populated. *)
StructValues(T) ==
    {ZeroValue(T)} \cup
    UNION {{[ZeroValue(T) EXCEPT !.f[Fields(T)[i].name] = v] :
               v \in ValuesOf(Fields(T)[i].typ, Fields(T)[i].key)} :
           i \in 1..Len(Fields(T))}

(* The cards validate is applied to: a declared version and one more field
   (or, through the message wrapper, none). *)
Entities ==
    UNION {StructValues(T) : T \in StructTypes} \cup
    {With("WorkflowConnectorCard", [Type |-> Str(s)]) : s \in {"message", "x"}} \cup
    {With("Image", [Common |-> Ptr(With("Common", [Height |-> Ptr(Str("stretch"))])),
                    Height |-> Str("auto")]),
     StyledText, RightToLeftCard}

(* The payloads: the members a payload object may carry. *)
NestedDiscriminants == {"TextBlock", "Column", "Action.OpenUrl", "Layout.Stack", "Future.Thing"}
NestedObjects ==
    {JObj([type |-> JStr(d)]) : d \in NestedDiscriminants} \cup
    {JObj([elementId |-> JStr("a"), isVisible |-> JBool(TRUE)])}
ItemPayloads ==
    {JObj([type |-> JStr("TextBlock")]), JObj([type |-> JStr("Column")]),
     JObj([type |-> JStr("Action.OpenUrl")]), JObj([type |-> JStr("Future.Thing")]),
     JStr("a")}
Scalars == {JNull, JStr("a"), JStr("drop"), JNum(5, TRUE), JBool(TRUE)}
(* Grid column widths: 1, 1.5, the first whole number above the largest int,
   and strings with and without the suffix. *)
WidthPayloads ==
    {JNum(1, TRUE), JNum(1, FALSE), JNum(MaxInt + 1, TRUE), JStr("50px"), JStr("px"),
     JStr("50")}
RawValues ==
    Scalars \cup NestedObjects \cup {JArr(a) : a \in SeqsUpTo(ItemPayloads, MaxItems)}

KeysOf(T) ==
    {Fields(T)[i].key : i \in {j \in 1..Len(Fields(T)) : ~Fields(T)[j].anon}} \cup
    UNION {{Fields(TypeElem(Fields(T)[i].typ))[n].key :
               n \in 1..Len(Fields(TypeElem(Fields(T)[i].typ)))} :
           i \in {j \in 1..Len(Fields(T)) : Fields(T)[j].anon}}

(* Discriminants init() registers for the inputs of a body or items sequence
   and for the Teams payloads of a submit action's data. *)
InputDiscriminants == {"Input.Rating", "Input.Text"}
SubmitDiscriminants == {"imBack"}

(* "type" members: absent, or one of these. *)
TopDiscriminants == {"TextBlock", "Image", "AdaptiveCard", "message", "Future.Thing"}
Payloads(T) ==
    {JBad, JArr(<< >>), JObj(EmptyMap)} \cup Scalars \cup NestedObjects \cup
    {JObj([type |-> JStr(d)]) : d \in TopDiscriminants} \cup
    {JObj(Put(EmptyMap, key, raw)) : key \in KeysOf(T), raw \in RawValues} \cup
    {JObj(Put(Put(EmptyMap, "type", JStr(d)), key, raw)) :
        d \in TopDiscriminants, key \in KeysOf(T) \ {"type"}, raw \in {JStr("a"), JBool(TRUE)}} \cup
    (IF T = "GridColumnWidth" THEN WidthPayloads \cup {JArr(<<JNum(1, TRUE)>>)} ELSE {}) \cup
    (IF T = "LayoutAreaGrid"
     THEN {JObj([columns |-> JArr(a)]) : a \in SeqsUpTo(WidthPayloads \cup {JNull}, MaxItems)}
     ELSE {}) \cup
    {JObj(Put(EmptyMap, key, JArr(<<JObj([type |-> JStr(d)])>>))) :
        key \in KeysOf(T) \cap {"body", "items"}, d \in InputDiscriminants} \cup
    {JObj(Put(EmptyMap, key, JObj([type |-> JStr(d)]))) :
        key \in KeysOf(T) \cap {"msteams"}, d \in SubmitDiscriminants}

(***************************************************************************)
(* The state machine.  typeRegistry is the package variable; initIdx counts *)
(* the registrations init() has performed; op is the call in progress and  *)
(* its outcome, Idle between calls; arch is the architecture the program   *)
(* was built for; accessing gives, for every goroutine, the access to      *)
(* typeRegistry it is in the middle of.                                    *)
(***************************************************************************)
Goroutines == 1..MaxGoroutines
NoAccess == [kind |-> "none", name |-> "", typ |-> "", raced |-> FALSE]
Idle == [name |-> "idle", arg |-> "", in |-> Nil, mid |-> Nil, out |-> Nil]
Call(name, arg, in, mid, out) ==
    [name |-> name, arg |-> arg, in |-> in, mid |-> mid, out |-> out]

Init ==
    /\ typeRegistry = [name \in {} |-> ""]
    /\ initIdx = 0
    /\ op = Idle
    /\ arch \in Architectures
    /\ accessing = [g \in Goroutines |-> NoAccess]

(* One RegisterType call of init(). *)
StartupRegister ==
    /\ initIdx < Len(InitRegistrations)
    /\ typeRegistry' = RegisterType(typeRegistry, InitRegistrations[initIdx + 1][1],
                                    InitRegistrations[initIdx + 1][2])
    /\ initIdx' = initIdx + 1
    /\ UNCHANGED <<op, arch, accessing>>

(* json.Marshal(x). *)
Encode(x) ==
    /\ Ready /\ op = Idle
    /\ op' = Call("encode", x.T, x, Nil, Marshal(typeRegistry, x))
    /\ UNCHANGED <<typeRegistry, initIdx, arch, accessing>>

(* Decode with a store of the decoded type into typeRegistry. *)
DecodeRegistering(t, j) ==
    /\ Ready /\ op = Idle
    /\ op' = Call("decode", t, j, Nil, Unmarshal(typeRegistry, t, j))
    /\ typeRegistry' = RegisterType(typeRegistry, t, t)
    /\ UNCHANGED <<initIdx, arch, accessing>>

(* json.Unmarshal(j, &target), target a zero value of struct type t. *)
Decode(t, j) ==
    /\ Ready /\ op = Idle
    /\ op' = Call("decode", t, j, Nil, Unmarshal(typeRegistry, t, j))
    /\ UNCHANGED <<typeRegistry, initIdx, arch, accessing>>

(* json.Marshal(x) and, if it succeeds, json.Unmarshal of the bytes into a
   zero value of the type of x. *)
RoundTrip(x) ==
    /\ Ready /\ op = Idle
    /\ LET enc == Marshal(typeRegistry, x)
       IN  op' = Call("roundtrip", x.T, x, enc,
                      IF enc.st = "ok" THEN Unmarshal(typeRegistry, x.T, enc.v) ELSE enc)
    /\ UNCHANGED <<typeRegistry, initIdx, arch, accessing>>

(* json.Unmarshal(j, &target) into a zero value of struct type t and, if it
   succeeds, json.Marshal of the decoded target. *)
Reencode(t, j) ==
    /\ Ready /\ op = Idle
    /\ op' = Bind(Unmarshal(typeRegistry, t, j),
                  LAMBDA dec : Call("reencode", t, j, dec,
                                    IF dec.st = "ok"
                                    THEN Bind(dec.v, LAMBDA x : Marshal(typeRegistry, x))
                                    ELSE dec))
    /\ UNCHANGED <<typeRegistry, initIdx, arch, accessing>>

(* ValidateVersion(x, v); AdaptiveCard.Validate is the case in which x is a
   card and v its Version field. *)
Validate(x, v) ==
    /\ Ready /\ op = Idle
    /\ op' = Call("validate", v, x, Nil, Ok(Slice(ValidateVersion(x, v))))
    /\ UNCHANGED <<typeRegistry, initIdx, arch, accessing>>

(* Two calls of ValidateVersion(x, v) of which the first clears x. *)
ValidateTwiceClearing(x, v) ==
    /\ Ready /\ op = Idle
    /\ op' = Call("revalidate", v, x,
                  [entity |-> ZeroValue(x.T), errors |-> Ok(Slice(ValidateVersion(x, v)))],
                  Ok(Slice(ValidateVersion(ZeroValue(x.T), v))))
    /\ UNCHANGED <<typeRegistry, initIdx, arch, accessing>>

(* Two calls of ValidateVersion(x, v) in a row; validateStruct reads x through
   reflection and assigns to none of its fields, so the second call is given
   the entity the first was given.  mid keeps the entity after the first call
   and what the first call returned, out what the second returned. *)
ValidateTwice(x, v) ==
    /\ Ready /\ op = Idle
    /\ op' = Call("revalidate", v, x,
                  [entity |-> x, errors |-> Ok(Slice(ValidateVersion(x, v)))],
                  Ok(Slice(ValidateVersion(x, v))))
    /\ UNCHANGED <<typeRegistry, initIdx, arch, accessing>>

(* ParseVersion(v). *)
Parse(v) ==
    /\ Ready /\ op = Idle
    /\ op' = Call("parse", v, Str(v), Nil,
                  IF ParseVersion(v).ok THEN Ok(ParseVersion(v).ver)
                  ELSE Err("invalid version", << >>))
    /\ UNCHANGED <<typeRegistry, initIdx, arch, accessing>>

(* v.Compare(other) and v.SupportsVersion(other), v and other parsed from the
   strings a and b. *)
CompareVersions(a, b) ==
    /\ Ready /\ op = Idle
    /\ LET v == ParseVersion(a).ver
           other == ParseVersion(b).ver
       IN  op' = Call("compare", a, [v |-> v, other |-> other],
                      Bool(SupportsVersion(v, other)), Ok(GoInt(Compare(v, other))))
    /\ UNCHANGED <<typeRegistry, initIdx, arch, accessing>>

(* The caller takes the outcome. *)
Return ==
    /\ op # Idle
    /\ op' = Idle
    /\ UNCHANGED <<typeRegistry, initIdx, arch, accessing>>

(* From Idle, once init() has run, any operation on any input. *)
Next ==
    \/ StartupRegister
    \/ Ready /\ op = Idle /\ \E x \in Entities : Encode(x)
    \/ Ready /\ op = Idle /\ \E t \in StructTypes : \E j \in Payloads(t) : Decode(t, j)
    \/ Ready /\ op = Idle /\ \E x \in Entities : RoundTrip(x)
    \/ Ready /\ op = Idle /\ \E t \in StructTypes : \E j \in Payloads(t) : Reencode(t, j)
    \/ Ready /\ op = Idle /\ \E x \in Entities :
           \E v \in VersionStrings \cup BadVersionStrings : Validate(x, v)
    \/ Ready /\ op = Idle /\ \E x \in Entities :
           \E v \in VersionStrings \cup BadVersionStrings : ValidateTwice(x, v)
    \/ Ready /\ op = Idle /\
           \E v \in VersionStrings \cup SignedVersionStrings \cup BadVersionStrings : Parse(v)
    \/ Ready /\ op = Idle /\ \E a, b \in VersionStrings \cup SignedVersionStrings :
           CompareVersions(a, b)
    \/ Return

Spec == Init /\ [][Next]_vars

(***************************************************************************)
(* The registry under registrations by an embedding program.  After init() *)
(* any caller may call the exported RegisterType; Resolve is a FindMapKey  *)
(* lookup, whose result is any of the keys the map iteration may meet      *)
(* first.                                                                  *)
(***************************************************************************)
EmbedderNames == {"Alias", "TextBlock", "Image", "CustomContainer"}
EmbedderTypes == {"TextBlock", "Image", "CustomContainer"}

EmbedderRegister(typeName, typ) ==
    /\ Ready /\ op = Idle
    /\ typeRegistry' = RegisterType(typeRegistry, typeName, typ)
    /\ UNCHANGED <<initIdx, op, arch, accessing>>

Resolve(typ) ==
    /\ Ready /\ op = Idle
    /\ \/ \E name \in FindMapKey(typeRegistry, typ) :
             op' = Call("resolve", typ, Nil, Nil, Ok(Str(name)))
       \/ /\ FindMapKey(typeRegistry, typ) = {}
          /\ op' = Call("resolve", typ, Nil, Nil, ErrNotRegistered)
    /\ UNCHANGED <<typeRegistry, initIdx, arch, accessing>>

NextEmbed ==
    \/ StartupRegister
    \/ \E typeName \in EmbedderNames : \E typ \in EmbedderTypes : EmbedderRegister(typeName, typ)
    \/ \E typ \in EmbedderTypes : Resolve(typ)
    \/ Return

SpecEmbed == Init /\ [][NextEmbed]_vars

(***************************************************************************)
(* The registry under goroutines.  Nothing in the package orders a call of *)
(* RegisterType with the calls of other goroutines: its map store, and the *)
(* map reads of the codec (the lookup of reflectUnmarshaling, the range of *)
(* FindMapKey), are steps a goroutine is in the middle of between a Begin  *)
(* and an End.  When a store overlaps another access the Go runtime may    *)
(* abort the program (concurrent map read and map write, concurrent map    *)
(* writes).                                                                *)
(***************************************************************************)
LateNames == {"Alias", "TextBlock"}
LateTypes == {"TextBlock", "CustomContainer"}

Access(kind, name, typ, raced) == [kind |-> kind, name |-> name, typ |-> typ, raced |-> raced]
Busy(g) == accessing[g].kind # "none"

(* Every access in progress other than g's has met g's store. *)
Overlapped(g) ==
    [h \in Goroutines |->
        IF h # g /\ Busy(h) THEN [accessing[h] EXCEPT !.raced = TRUE] ELSE accessing[h]]

(* RegisterType(typeName, example), up to the map store. *)
RegisterBegin(g, typeName, typ) ==
    /\ Ready /\ ~Busy(g)
    /\ accessing' = [Overlapped(g) EXCEPT
                        ![g] = Access("write", typeName, typ, \E h \in Goroutines \ {g} : Busy(h))]
    /\ UNCHANGED <<typeRegistry, initIdx, op, arch>>

(* The map store of RegisterType completes, or the runtime aborts. *)
RegisterEnd(g) ==
    /\ accessing[g].kind = "write"
    /\ accessing' = [accessing EXCEPT ![g] = NoAccess]
    /\ \/ /\ typeRegistry' = RegisterType(typeRegistry, accessing[g].name, accessing[g].typ)
          /\ op' = Call("register", accessing[g].name, Nil, Nil, Ok(Nil))
       \/ /\ accessing[g].raced
          /\ typeRegistry' = typeRegistry
          /\ op' = Call("register", accessing[g].name, Nil, Nil, Panic)
    /\ UNCHANGED <<initIdx, arch>>

(* The registry read of a codec call begins: typeRegistry[typeName]. *)
LookupBegin(g, typeName) ==
    /\ Ready /\ ~Busy(g)
    /\ accessing' = [accessing EXCEPT
                        ![g] = Access("read", typeName, "",
                                      \E h \in Goroutines \ {g} : accessing[h].kind = "write")]
    /\ UNCHANGED <<typeRegistry, initIdx, op, arch>>

(* The read returns the entry, or the runtime aborts. *)
LookupEnd(g) ==
    /\ accessing[g].kind = "read"
    /\ accessing' = [accessing EXCEPT ![g] = NoAccess]
    /\ \/ op' = Call("lookup", accessing[g].name, Nil, Nil,
                      IF accessing[g].name \in DOMAIN typeRegistry
                      THEN Ok(Str(typeRegistry[accessing[g].name])) ELSE ErrUnknown)
       \/ /\ accessing[g].raced
          /\ op' = Call("lookup", accessing[g].name, Nil, Nil, Panic)
    /\ UNCHANGED <<typeRegistry, initIdx, arch>>

NextGo ==
    \/ StartupRegister
    \/ \E g \in Goroutines : \E typeName \in LateNames : \E typ \in LateTypes :
           RegisterBegin(g, typeName, typ)
    \/ \E g \in Goroutines : RegisterEnd(g)
    \/ \E g \in Goroutines : \E typeName \in LateNames : LookupBegin(g, typeName)
    \/ \E g \in Goroutines : LookupEnd(g)

SpecGo == Init /\ [][NextGo]_vars

(***************************************************************************)
(* Properties.                                                             *)
(***************************************************************************)
Registered(T) == FindMapKey(typeRegistry, T) # {}
Discriminant(T) == CHOOSE name \in FindMapKey(typeRegistry, T) : TRUE
Reported == {op.out.v.a[i].FieldName : i \in 1..Len(op.out.v.a)}

(* The names of the populated fields, anywhere in the tree under val, whose
   version tag exceeds cardVersion; entities held in interface-typed fields
   and sequences are part of the tree. *)
RECURSIVE OverVersionFields(_, _, _)
OverVersionFields(val, cardVersion, prefix) ==
    CASE val.k = "ptr" -> OverVersionFields(val.v, cardVersion, prefix)
      [] val.k = "slice" ->
           UNION {OverVersionFields(val.a[j], cardVersion, ItemName(prefix, j - 1)) :
                  j \in 1..Len(val.a)}
      [] val.k = "struct" ->
           UNION {LET fd == Fields(val.T)[i]
                  IN  (IF /\ fd.ver # ""
                          /\ ~isZeroValue(TypeKind(fd.typ), val.f[fd.name])
                          /\ ~SupportsVersion(cardVersion, ParseVersion(fd.ver).ver)
                       THEN {Append(prefix, fd.name)} ELSE {})
                      \cup OverVersionFields(val.f[fd.name], cardVersion,
                                             Append(prefix, fd.name)) :
                  i \in 1..Len(Fields(val.T))}
      [] OTHER -> {}

(* C1: for any document and any parsable declared version, validate returns
   a violation for every populated field anywhere in the entity tree whose
   required version exceeds the declared one, entities held in polymorphic
   sequences included. *)
ValidateReportsWholeTree ==
    (op.name = "validate" /\ ParseVersion(op.arg).ok)
        => OverVersionFields(op.in, ParseVersion(op.arg).ver, << >>) \subseteq Reported

(* A card of version 1.0 whose body holds a text block with the 1.5 field
   Style populated has been validated and no violation was returned. *)
StyledBodyValidatedClean ==
    /\ op.name = "validate" /\ op.arg = "1.0"
    /\ op.in = With("AdaptiveCard", [Body |-> Slice(<<Ptr(StyledText)>>)])
    /\ op.out = Ok(Slice(<< >>))

(* C2: every operation, on every input, ends by returning a value or an
   error value; it never panics or otherwise aborts the process. *)
OperationsNeverAbort ==
    op # Idle => op.out.st \in {"ok", "err"}

(* Decoding a text block whose fallback payload has an unregistered type
   has panicked. *)
UnknownFallbackPanics ==
    /\ op.name = "decode" /\ op.arg = "TextBlock"
    /\ op.in = JObj([fallback |-> JObj([type |-> JStr("Future.Thing")])])
    /\ op.out = Panic

(* C3: decoding a payload whose explicit "type" differs from the target
   variant's discriminant returns the type-mismatch error. *)
MismatchedTypeRejected ==
    (/\ op.name = "decode" /\ Registered(op.arg)
     /\ op.in.k = "jobj" /\ "type" \in DOMAIN op.in.o
     /\ op.in.o["type"] # JStr(Discriminant(op.arg)))
        => (op.out.st = "err" /\ op.out.e = "invalid type")

(* A payload of type "Image" has been decoded into a text block, its text
   member included, without error. *)
ImagePayloadDecodedAsTextBlock ==
    /\ op.name = "decode" /\ op.arg = "TextBlock"
    /\ op.in = JObj([type |-> JStr("Image"), text |-> JStr("a")])
    /\ op.out = Ok(With("TextBlock", [Text |-> Ptr(Str("a"))]))

(* C4: for every concrete variant and every value x of it, encode(x)
   succeeds and decoding the result into the same variant gives a value
   field-wise equal to x. *)
RoundTripIsIdentity ==
    op.name = "roundtrip" => (op.mid.st = "ok" /\ op.out = Ok(op.in))

(* A toggle-visibility action with one flagged target could not be encoded. *)
FlaggedToggleNotEncodable ==
    /\ op.name = "roundtrip"
    /\ op.in = With("ActionToggleVisibility", [TargetElements |-> Slice(<<FlaggedTarget>>)])
    /\ op.mid = ErrNotRegistered

(* C5: every successful encode of an entity produces a JSON object whose
   "type" member is the discriminant registered for the entity's variant,
   whatever the values of the entity's own fields. *)
EncodedTypeIsDiscriminant ==
    (op.name = "encode" /\ Registered(op.arg) /\ op.out.st = "ok")
        => /\ op.out.v.k = "jobj"
           /\ "type" \in DOMAIN op.out.v.o
           /\ op.out.v.o["type"] = JStr(Discriminant(op.arg))

(* A message wrapper whose Type field holds "x" has been encoded with
   "type": "x". *)
WrapperTypeFieldEmitted ==
    /\ op.name = "encode"
    /\ op.in = With("WorkflowConnectorCard", [Type |-> Str("x")])
    /\ op.out.st = "ok"
    /\ op.out.v.o["type"] = JStr("x")

(* C6: every variant that encodes through the registry is registered at
   start-up, so encoding never fails for want of a registration. *)
SmartMarshalTypesRegistered ==
    /\ Ready => \A T \in SmartMarshalTypes : Registered(T)
    /\ op.name = "encode" => op.out # ErrNotRegistered

(* A table column definition has been encoded and no registration was
   found for it. *)
ColumnDefinitionNotRegistered ==
    /\ op.name = "encode"
    /\ op.in = ZeroValue("TableColumnDefinition")
    /\ op.out = ErrNotRegistered

(* C7: after the start-up registrations and any embedder registrations the
   registry is a bijection, so resolving a variant's discriminant has one
   possible result. *)
RegistryIsBijection ==
    \A a, b \in DOMAIN typeRegistry : typeRegistry[a] = typeRegistry[b] => a = b

(* The text block type has been resolved to the embedder's name "Alias"
   while "TextBlock" is registered for it too. *)
AliasResolved ==
    /\ op.name = "resolve" /\ op.arg = "TextBlock"
    /\ op.out = Ok(Str("Alias"))
    /\ "TextBlock" \in FindMapKey(typeRegistry, "TextBlock")

(* C8: decoding a toggle target succeeds for a bare string, giving the
   identifier and no override, and for an object carrying the identifier
   and the flag, giving both. *)
TargetDecodesBothShapes ==
    (op.name = "decode" /\ op.arg = "TargetElement")
        => /\ op.in.k = "jstr" => op.out = Ok(With("TargetElement", [ElementID |-> Str(op.in.s)]))
           /\ (/\ op.in.k = "jobj"
               /\ DOMAIN op.in.o = {"elementId", "isVisible"}
               /\ op.in.o["elementId"].k = "jstr"
               /\ op.in.o["isVisible"].k = "jbool")
                 => op.out = Ok(With("TargetElement",
                                     [ElementID |-> Str(op.in.o["elementId"].s),
                                      IsVisible |-> Ptr(Bool(op.in.o["isVisible"].b))]))

(* Decoding an object-form toggle target has overflowed the stack. *)
TargetObjectDecodeOverflows ==
    /\ op.name = "decode" /\ op.arg = "TargetElement"
    /\ op.in = JObj([elementId |-> JStr("a"), isVisible |-> JBool(TRUE)])
    /\ op.out = Overflow

(* C9: encoding a toggle target emits the bare identifier when the override
   is absent, and otherwise succeeds with an object carrying the identifier
   and the flag. *)
TargetEncodesBothShapes ==
    (op.name = "encode" /\ op.arg = "TargetElement")
        => IF op.in.f.IsVisible = Nil
           THEN op.out = Ok(JStr(op.in.f.ElementID.s))
           ELSE /\ op.out.st = "ok"
                /\ op.out.v.k = "jobj"
                /\ {"elementId", "isVisible"} \subseteq DOMAIN op.out.v.o

(* Encoding a target with an override has failed. *)
FlaggedTargetEncodeFails ==
    /\ op.name = "encode" /\ op.arg = "TargetElement"
    /\ op.in.f.IsVisible # Nil
    /\ op.out = ErrNotRegistered

(* C10: when a singular category field, plain or pointer-to-category, is
   given a payload whose discriminant is not registered, decoding returns no
   error and leaves the field nil. *)
UnknownSingularLeftNil ==
    \A i \in 1..Len(Fields(op.arg)) :
        LET fd == Fields(op.arg)[i]
        IN  (/\ op.name = "decode"
             /\ \/ fd.typ \in Categories
                \/ TypeKind(fd.typ) = "ptr" /\ TypeElem(fd.typ) \in Categories
             /\ op.in = JObj(Put(EmptyMap, fd.key, JObj([type |-> JStr("Future.Thing")]))))
                => (op.out.st = "ok" /\ op.out.v.f[fd.name] = Nil)

(* A column whose layout payload has an unregistered type has been decoded
   with Layout a non-nil pointer to a nil Layout. *)
UnknownLayoutLeftPointer ==
    /\ op.name = "decode" /\ op.arg = "Column"
    /\ op.in = JObj([layout |-> JObj([type |-> JStr("Future.Thing")])])
    /\ op.out.st = "ok"
    /\ op.out.v.f.Layout = Ptr(Nil)

(* The payload of the fallback member of a decode call whose payload has
   that member only, given to a type that decodes it with
   unmarshalFallback. *)
FallbackCall ==
    /\ op.name = "decode" /\ op.arg \in SmartUnmarshalTypes
    /\ "fallback" \in KeysOf(op.arg)
    /\ op.in.k = "jobj" /\ DOMAIN op.in.o = {"fallback"}
FallbackRaw == op.in.o["fallback"]

(* raw is an object whose discriminant is registered for a type of
   category c. *)
RegisteredAs(raw, c) ==
    /\ raw.k = "jobj" /\ CardType(raw) \in DOMAIN typeRegistry
    /\ Implements(typeRegistry[CardType(raw)], c)

(* The Fallback field of a decoded value: its own, or that of the struct it
   embeds. *)
FallbackOf(v) ==
    IF "Fallback" \in DOMAIN v.f THEN v.f.Fallback
    ELSE v.f[Fields(v.T)[1].name].v.f.Fallback

(* C11: decoding a multi-shape scalar whose payload matches none of the
   permitted shapes returns an error: a fallback that is neither a string
   nor an object of a registered Element or Action, a grid column width that
   is neither a number nor a string, a toggle target that is neither a
   string nor an object. *)
UnmatchedShapeIsError ==
    /\ (/\ FallbackCall
        /\ FallbackRaw.k \notin {"jstr", "jnull"}
        /\ ~RegisteredAs(FallbackRaw, "Element")
        /\ ~RegisteredAs(FallbackRaw, "Action"))
          => op.out.st = "err"
    /\ (/\ op.name = "decode" /\ op.arg = "GridColumnWidth"
        /\ op.in.k \notin {"jbad", "jnum", "jstr"})
          => op.out.st = "err"
    /\ (/\ op.name = "decode" /\ op.arg = "TargetElement"
        /\ op.in.k \notin {"jbad", "jnull", "jstr", "jobj"})
          => op.out.st = "err"

(* Decoding an image whose fallback payload is an object without a
   discriminant has panicked. *)
ShapelessFallbackPanics ==
    /\ op.name = "decode" /\ op.arg = "Image"
    /\ op.in = JObj([fallback |-> JObj([elementId |-> JStr("a"), isVisible |-> JBool(TRUE)])])
    /\ op.out = Panic

(* The items of raws whose discriminant is in the registry, in their order. *)
Recognized(raws) == SelectSeq(raws, LAMBDA r : CardType(r) \in DOMAIN typeRegistry)

(* C12: decoding a sequence field of a category, given an array of objects
   of which the recognized ones belong to the category, returns no error;
   the field holds one entity for each item whose discriminant is in the
   registry, of the registered type, in the order of the payload, and
   nothing for the other items. *)
UnknownItemsDropped ==
    \A i \in 1..Len(Fields(op.arg)) :
        LET fd == Fields(op.arg)[i]
        IN  (/\ op.name = "decode" /\ op.arg \in SmartUnmarshalTypes
             /\ TypeKind(fd.typ) = "slice" /\ TypeElem(fd.typ) \in Categories
             /\ op.in.k = "jobj" /\ DOMAIN op.in.o = {fd.key}
             /\ op.in.o[fd.key].k = "jarr"
             /\ \A n \in 1..Len(op.in.o[fd.key].a) :
                    LET raw == op.in.o[fd.key].a[n]
                    IN  /\ raw.k = "jobj"
                        /\ CardType(raw) \in DOMAIN typeRegistry
                              => RegisteredAs(raw, TypeElem(fd.typ)))
                => LET kept == Recognized(op.in.o[fd.key].a)
                   IN  /\ op.out.st = "ok"
                       /\ op.out.v.f[fd.name].k = "slice"
                       /\ Len(op.out.v.f[fd.name].a) = Len(kept)
                       /\ \A n \in 1..Len(kept) :
                              op.out.v.f[fd.name].a[n] =
                                  Ptr(ZeroValue(typeRegistry[CardType(kept[n])]))

(* A card whose body payload holds a text block and an item of an
   unregistered type has been decoded into a body of the text block alone. *)
UnknownBodyItemDropped ==
    /\ op.name = "decode" /\ op.arg = "AdaptiveCard"
    /\ op.in = JObj([body |-> JArr(<<JObj([type |-> JStr("TextBlock")]),
                                     JObj([type |-> JStr("Future.Thing")])>>)])
    /\ op.out.st = "ok"
    /\ op.out.v.f.Body = Slice(<<Ptr(ZeroValue("TextBlock"))>>)

(* The shapes of a sequence of attempts. *)
Shapes(as) == [n \in 1..Len(as) |-> as[n].shape]

(* C13: decoding a fallback payload attempts the enumeration string first,
   then Element, then Action, stops at the first attempt that parses and
   returns its value: a string, "drop" included, is given one attempt and
   decodes to the enumeration value; an Element object is given two; an
   Action object three. *)
FallbackShapeOrder ==
    FallbackCall =>
        LET as == unmarshalFallbackAttempts(typeRegistry, FallbackRaw)
        IN  /\ FallbackRaw.k = "jstr"
                  => /\ Shapes(as) = <<"FallbackOption">>
                     /\ op.out.st = "ok"
                     /\ FallbackOf(op.out.v) = Named("FallbackOption", FallbackRaw.s)
            /\ RegisteredAs(FallbackRaw, "Element")
                  => /\ Shapes(as) = <<"FallbackOption", "Element">>
                     /\ op.out.st = "ok"
                     /\ FallbackOf(op.out.v) =
                            Ptr(ZeroValue(typeRegistry[CardType(FallbackRaw)]))
            /\ RegisteredAs(FallbackRaw, "Action")
                  => /\ Shapes(as) = <<"FallbackOption", "Element", "Action">>
                     /\ op.out.st = "ok"
                     /\ FallbackOf(op.out.v) =
                            Ptr(ZeroValue(typeRegistry[CardType(FallbackRaw)]))

(* A text block whose fallback payload is "drop" has been decoded with the
   enumeration value, after the string attempt alone. *)
DropDecodedAsOption ==
    /\ op.name = "decode" /\ op.arg = "TextBlock"
    /\ op.in = JObj([fallback |-> JStr("drop")])
    /\ op.out.st = "ok"
    /\ FallbackOf(op.out.v) = Named("FallbackOption", "drop")
    /\ Shapes(unmarshalFallbackAttempts(typeRegistry, JStr("drop"))) = <<"FallbackOption">>

(* C14: decoding a grid column width accepts every whole number, giving the
   weight form with that value, and every string that ends in "px", giving
   the fixed-pixel form with that text ("50px" is 50 pixels), and returns an
   error for a fractional number and for every other JSON type. *)
WidthDecodeShapes ==
    (op.name = "decode" /\ op.arg = "GridColumnWidth" /\ op.in # JBad)
        => IF op.in.k = "jnum" /\ op.in.whole
           THEN op.out = Ok(With("GridColumnWidth", [Value |-> GoInt(op.in.n)]))
           ELSE IF op.in.k = "jstr" /\ HasSuffix(WidthChars(op.in.s), <<"p", "x">>)
           THEN op.out = Ok(With("GridColumnWidth", [Value |-> Str(op.in.s)]))
           ELSE op.out.st = "err"

(* The first whole number above the largest int has been rejected as a grid
   column width. *)
WholeWidthRejected ==
    /\ op.name = "decode" /\ op.arg = "GridColumnWidth"
    /\ op.in = JNum(MaxInt + 1, TRUE)
    /\ op.out.st = "err"

(* C15: validating a card of declared version "1.0" whose only populated
   versioned field is rtl returns exactly one violation, which names that
   field, the required version 1.5 and the declared version 1.0. *)
RtlViolationReported ==
    (op.name = "validate" /\ op.in = RightToLeftCard /\ op.arg = "1.0")
        => op.out = Ok(Slice(<<ValidationError(
                                  <<FieldOf("AdaptiveCard",
                                            CHOOSE name \in FieldNames("AdaptiveCard") :
                                               FieldOf("AdaptiveCard", name).key = "rtl").name>>,
                                  Version(1, 5), Version(1, 0))>>))

(* The right-to-left card has been validated against "1.0" and one
   violation was returned. *)
RtlCardValidated ==
    /\ op.name = "validate" /\ op.in = RightToLeftCard /\ op.arg = "1.0"
    /\ op.out.st = "ok" /\ Len(op.out.v.a) = 1

(* C16: decoding bytes that are not JSON, or JSON that is not an object
   (null, a number, a string, a boolean, an array) into a type that is
   encoded as an object, returns an error and never a decoded entity. *)
MalformedDocumentRejected ==
    (/\ op.name = "decode"
     /\ op.arg \notin {"TargetElement", "GridColumnWidth"}
     /\ op.in.k # "jobj")
        => op.out.st = "err"

(* A card has been decoded from null without error. *)
NullDocumentDecoded ==
    /\ op.name = "decode" /\ op.arg = "AdaptiveCard"
    /\ op.in = JNull
    /\ op.out = Ok(ZeroValue("AdaptiveCard"))

(* The wrappers that name a field. *)
FieldWrappers ==
    {"failed to unmarshal slice field", "failed to unmarshal interface field",
     "failed to unmarshal fallback field", "failed to unmarshal pointer field",
     "failed to unmarshal pointer-to-interface field", "failed to unmarshal field"}
NamesField(r) == \E n \in 1..Len(r.ctx) : r.ctx[n].w \in FieldWrappers /\ r.ctx[n].name # ""

(* C17: an error raised while a member of an object payload is decoded, or
   while a field of an entity of a registered type is encoded, is returned
   to the caller with the name of the field. *)
FieldErrorsNameField ==
    /\ (op.name = "decode" /\ op.arg \in SmartUnmarshalTypes /\ op.in.k = "jobj"
         /\ op.out.st = "err")
          => NamesField(op.out)
    /\ (op.name = "encode" /\ Registered(op.arg) /\ op.out.st = "err")
          => NamesField(op.out)

(* A card whose body payload is a number has been decoded into an error
   that names no field. *)
BodyErrorNamesNoField ==
    /\ op.name = "decode" /\ op.arg = "AdaptiveCard"
    /\ op.in = JObj([body |-> JNum(5, TRUE)])
    /\ op.out = ErrJSONType

(* C18: decoding terminates on every payload: no decoder calls itself again
   on the bytes it was given. *)
DecodeTerminates ==
    op.name = "decode" => op.out # Overflow

(* Decoding a toggle action whose target list holds an object has not
   terminated. *)
TargetListDecodeOverflows ==
    /\ op.name = "decode" /\ op.arg = "ActionToggleVisibility"
    /\ op.in = JObj([targetElements |-> JArr(<<JObj([type |-> JStr("TextBlock")])>>)])
    /\ op.out = Overflow

(* C19: a RegisterType call made after start-up is never in progress while
   another goroutine reads or writes the registry. *)
LateRegisterExclusive ==
    \A g \in Goroutines :
        accessing[g].kind = "write" => \A h \in Goroutines \ {g} : ~Busy(h)

(* A late registration and a registry read of another goroutine are in
   progress together. *)
RegisterOverlapsLookup ==
    \E g \in Goroutines : \E h \in Goroutines :
        /\ accessing[g].kind = "write" /\ accessing[g].raced
        /\ accessing[h].kind = "read" /\ accessing[h].raced

(* The registry init() leaves. *)
StartupRegistry ==
    [name \in {InitRegistrations[n][1] : n \in 1..Len(InitRegistrations)} |->
        InitRegistrations[CHOOSE n \in 1..Len(InitRegistrations) :
                             InitRegistrations[n][1] = name][2]]

(* C20: once init() has run no encode, decode or validate call writes to the
   registry: it stays the registry init() left, whatever calls are made. *)
CodecLeavesRegistry ==
    Ready => typeRegistry = StartupRegistry

(* A card has been decoded and the registry is the one init() left. *)
DecodedUnderStartupRegistry ==
    /\ op.name = "decode" /\ op.arg = "AdaptiveCard"
    /\ op.in.k = "jobj" /\ "body" \in DOMAIN op.in.o
    /\ op.out.st = "ok"
    /\ typeRegistry = StartupRegistry


(* The JSON value encoded from the decoded payload of a "reencode" call. *)
Reencoded == op.out.v

(* C21: for every document that decode accepts, encoding the decoded entity
   succeeds and gives a JSON value equal to the document, key order ignored:
   no key and no sequence element is lost or added. *)
ReencodeIsIdentity ==
    (op.name = "reencode" /\ op.mid.st = "ok")
        => (op.out.st = "ok" /\ Reencoded = op.in)

(* A card whose body holds a text block and an element of an unregistered
   type has been decoded and encoded again, and the encoded body holds one
   element. *)
UnknownBodyItemLostOnReencode ==
    /\ op.name = "reencode" /\ op.arg = "AdaptiveCard"
    /\ op.in = JObj([body |-> JArr(<<JObj([type |-> JStr("TextBlock")]),
                                      JObj([type |-> JStr("Future.Thing")])>>)])
    /\ op.mid.st = "ok" /\ op.out.st = "ok"
    /\ "body" \in DOMAIN Reencoded.o
    /\ Len(Reencoded.o["body"].a) = 1

(* The violation returned for a declared version that does not parse. *)
Sentinel ==
    [FieldName |-> <<"version">>,
     RequiredVersion |-> [Major |-> 0, Minor |-> 0],
     CardVersion |-> [Major |-> 0, Minor |-> 0]]

(* C22: when the declared version string cannot be parsed into a (major,
   minor) pair, validate returns (it neither raises nor panics) a list that
   holds exactly one violation, the sentinel, and reports no field of the
   entity. *)
UnparsableVersionSentinel ==
    (op.name = "validate" /\ ~ParseVersion(op.arg).ok)
        => op.out = Ok(Slice(<<Sentinel>>))

(* A text block with the 1.5 field Style populated has been validated
   against the declared version "a.b" and the sentinel alone was returned. *)
StyledTextUnparsableVersion ==
    /\ op.name = "validate" /\ op.arg = "a.b"
    /\ op.in = StyledText
    /\ op.out = Ok(Slice(<<Sentinel>>))

(* v precedes other in the lexicographic order on (major, minor). *)
Precedes(v, other) ==
    \/ v.Major < other.Major
    \/ (v.Major = other.Major /\ v.Minor < other.Minor)

(* C23: version comparison is the strict lexicographic order on (major,
   minor): Compare returns -1, 0 or 1 according to that order, and a version
   supports a requirement if and only if it is greater than or equal to the
   requirement in that order. *)
CompareIsLexicographic ==
    op.name = "compare" =>
        /\ op.out.st = "ok"
        /\ op.out.v.n = (IF Precedes(op.in.v, op.in.other) THEN -1
                         ELSE IF Precedes(op.in.other, op.in.v) THEN 1
                         ELSE 0)
        /\ (op.in.v = op.in.other <=> op.out.v.n = 0)
        /\ op.mid.b = ~Precedes(op.in.v, op.in.other)

(* 1.10 has been compared with 1.2: it is the greater and supports it. *)
MinorComparedAsNumber ==
    /\ op.name = "compare"
    /\ op.in = [v |-> [Major |-> 1, Minor |-> 10], other |-> [Major |-> 1, Minor |-> 2]]
    /\ op.out = Ok(GoInt(1))
    /\ op.mid = Bool(TRUE)

(* C24: validate is pure: it leaves the entity it is given unchanged, and
   two calls of validate on the same entity and version return the same
   violations in the same order. *)
ValidateIsRepeatable ==
    op.name = "revalidate" =>
        /\ op.mid.entity = op.in
        /\ op.out = op.mid.errors

(* A styled text block has been validated twice against 1.0; both calls
   reported the field Style and the block is as it was. *)
StyledTextValidatedTwice ==
    /\ op.name = "revalidate" /\ op.arg = "1.0"
    /\ op.in = StyledText /\ op.mid.entity = StyledText
    /\ op.out.st = "ok" /\ Len(op.out.v.a) = 1
    /\ op.out.v.a[1].FieldName = <<"Style">>
    /\ op.mid.errors = op.out

(* The field a violation's name leads to, from the validated value val: the
   struct type that declares it, its declaration and the value it holds. *)
RECURSIVE FieldAt(_, _)
FieldAt(val, path) ==
    CASE val.k = "ptr" -> FieldAt(val.v, path)
      [] val.k = "slice" ->
           FieldAt(val.a[CHOOSE j \in 1..Len(val.a) : ItemName(<< >>, j - 1) = <<path[1]>>],
                   Tail(path))
      [] OTHER ->
           IF Len(path) = 1
           THEN [T |-> val.T, fd |-> FieldOf(val.T, path[1]), v |-> val.f[path[1]]]
           ELSE FieldAt(val.f[path[1]], Tail(path))

(* C25: validate reports a violation for a field only if the field holds a
   value other than the zero value of its type and the version the field
   requires is greater than the declared version; a field at its zero value,
   or whose requirement the declared version supports, yields no violation,
   whatever the field's type. *)
ViolationsArePopulatedAndNewer ==
    (op.name = "validate" /\ ParseVersion(op.arg).ok) =>
        \A i \in 1..Len(op.out.v.a) :
            LET e == op.out.v.a[i]
                at == FieldAt(op.in, e.FieldName)
            IN  /\ at.v # ZeroValue(at.T).f[at.fd.name]
                /\ at.fd.ver # ""
                /\ e.RequiredVersion = ParseVersion(at.fd.ver).ver
                /\ Precedes(ParseVersion(op.arg).ver, e.RequiredVersion)

(* A styled text block has been validated against 1.2: its style, which
   requires 1.5, is the one field reported; its text, populated too but
   required by 1.0, is not. *)
StyleReportedTextNot ==
    /\ op.name = "validate" /\ op.arg = "1.2"
    /\ op.in = StyledText
    /\ Reported = {<<"Style">>}
    /\ op.in.f.Text # Nil

(* The baseline version, "1.0". *)
Baseline == [Major |-> 1, Minor |-> 0]

(* C26: a field that carries no version requirement is validated as if its
   requirement were the baseline version "1.0": for every declared version,
   a populated untagged field is reported exactly when a populated field
   tagged "1.0" is, that is, when the declared version precedes 1.0. *)
UntaggedValidatedAsBaseline ==
    (op.name = "validate" /\ ParseVersion(op.arg).ok) =>
        \A i \in 1..Len(Fields(op.in.T)) :
            LET fd == Fields(op.in.T)[i]
            IN  (/\ ~fd.anon
                 /\ fd.ver \in {"", "1.0"}
                 /\ op.in.f[fd.name] # ZeroValue(op.in.T).f[fd.name])
                    => (<<fd.name>> \in Reported
                            <=> Precedes(ParseVersion(op.arg).ver, Baseline))

(* The common action properties with the untagged field ID populated have
   been validated against the declared version 0.9 and nothing was
   reported. *)
UntaggedIdNotReported ==
    /\ op.name = "validate" /\ op.arg = "0.9"
    /\ op.in = With("CommonActionProperties", [ID |-> Str("a")])
    /\ FieldOf("CommonActionProperties", "ID").ver = ""
    /\ op.out = Ok(Slice(<< >>))

(* The common properties with the field ID, tagged "1.0", populated have
   been validated against the declared version 0.9 and ID was reported. *)
BaselineIdReported ==
    /\ op.name = "validate" /\ op.arg = "0.9"
    /\ op.in = With("Common", [ID |-> Str("a")])
    /\ FieldOf("Common", "ID").ver = "1.0"
    /\ Reported = {<<"ID">>}

(* The embedded (anonymous) fields of struct type T, and the keys of the
   members of embedded field fd the payload object o carries. *)
Embedded(T) == {Fields(T)[i] : i \in {j \in 1..Len(Fields(T)) : Fields(T)[j].anon}}
MemberKeys(fd, o) ==
    {Fields(TypeElem(fd.typ))[n].key : n \in 1..Len(Fields(TypeElem(fd.typ)))}
        \cap DOMAIN o

(* Every non-empty member of the group held in embedded field fd of the
   encoded entity is a member of the encoded object, under its own key and
   with its own encoding. *)
MembersEmitted(fd) ==
    LET g == op.in.f[fd.name].v
    IN  \A n \in 1..Len(Fields(g.T)) :
            LET m == Fields(g.T)[n]
            IN  ~isEmptyValue(TypeKind(m.typ), g.f[m.name])
                    => /\ m.key \in DOMAIN op.out.v.o
                       /\ Ok(op.out.v.o[m.key]) = Marshal(typeRegistry, g.f[m.name])

(* The Go value a string or boolean payload gives a member of type t. *)
Scalar(t, raw) ==
    CASE t = "string" /\ raw.k = "jstr" -> Str(raw.s)
      [] t = "*string" /\ raw.k = "jstr" -> Ptr(Str(raw.s))
      [] t = "bool" /\ raw.k = "jbool" -> Bool(raw.b)
      [] OTHER -> Nil

(* The group read by a decode: absent when the owner's object carries no key
   of the group; otherwise a member whose key is absent is at its zero value
   and a string or boolean member holds the value under its key. *)
MembersReadBack(fd) ==
    LET keys == MemberKeys(fd, op.in.o)
        g == op.out.v.f[fd.name].v
    IN  IF keys = {} THEN op.out.v.f[fd.name] = Nil
        ELSE /\ op.out.v.f[fd.name] # Nil
             /\ \A n \in 1..Len(Fields(g.T)) :
                    LET m == Fields(g.T)[n]
                    IN  IF m.key \notin keys
                        THEN g.f[m.name] = ZeroValue(g.T).f[m.name]
                        ELSE Scalar(m.typ, op.in.o[m.key]) # Nil
                                 => g.f[m.name] = Scalar(m.typ, op.in.o[m.key])

(* C27: encoding emits each non-empty member of a composed field group as a
   sibling key of the owner's own keys (the group is not nested under a key
   of its own and the one discriminant is the owner's), and decoding reads
   the group's members back from those sibling keys of the owner's object. *)
GroupMembersAreSiblingKeys ==
    /\ (op.name = "encode" /\ op.out.st = "ok" /\ Registered(op.in.T)) =>
           \A fd \in Embedded(op.in.T) :
               op.in.f[fd.name] # Nil =>
                   /\ DOMAIN op.out.v.o \subseteq KeysOf(op.in.T) \cup {"type"}
                   /\ op.out.v.o["type"] = JStr(Discriminant(op.in.T))
                   /\ MembersEmitted(fd)
    /\ (op.name = "decode" /\ op.out.st = "ok" /\ op.in.k = "jobj") =>
           \A fd \in Embedded(op.arg) : MembersReadBack(fd)

(* An image whose group holds the height "stretch" and whose own height is
   "auto" has been encoded, and the one height of the encoded object is
   "auto". *)
GroupHeightNotEmitted ==
    /\ op.name = "encode"
    /\ op.in = With("Image", [Common |-> Ptr(With("Common", [Height |-> Ptr(Str("stretch"))])),
                              Height |-> Str("auto")])
    /\ op.out.st = "ok"
    /\ op.out.v.o["height"] = JStr("auto")

(* The variant of the entity v holds (v the entity or a pointer to it). *)
VariantOf(v) ==
    IF v = Nil THEN "" ELSE IF v.k = "ptr" THEN v.v.T ELSE IF v.k = "struct" THEN v.T ELSE ""

(* C28: every discriminant registered at start-up for a variant that belongs
   on the wire to a polymorphic category (an Input.* element in a body or
   items sequence, a Teams submit payload in a data's msteams member)
   decodes, when it appears in a field of that category, to an entity of
   that variant: the decode returns no error and skips nothing. *)
CategoryVariantsDecode ==
    (op.name = "decode" /\ op.in.k = "jobj") =>
        \A i \in 1..Len(Fields(op.arg)) :
            LET fd == Fields(op.arg)[i]
            IN  /\ \A d \in InputDiscriminants :
                       (/\ fd.typ = "[]Element" /\ fd.key \in DOMAIN op.in.o
                        /\ op.in.o[fd.key] = JArr(<<JObj([type |-> JStr(d)])>>))
                           => /\ op.out.st = "ok"
                              /\ op.out.v.f[fd.name] # Nil
                              /\ Len(op.out.v.f[fd.name].a) = 1
                              /\ VariantOf(op.out.v.f[fd.name].a[1]) = StartupRegistry[d]
                /\ \A d \in SubmitDiscriminants :
                       (/\ fd.typ = "ActionData" /\ fd.key \in DOMAIN op.in.o
                        /\ op.in.o[fd.key] = JObj([type |-> JStr(d)]))
                           => /\ op.out.st = "ok"
                              /\ VariantOf(op.out.v.f[fd.name]) = StartupRegistry[d]

(* A card whose body holds one Input.Rating has been decoded and the decode
   returned the error of a type that does not implement the interface. *)
RatingInputRejected ==
    /\ op.name = "decode" /\ op.arg = "AdaptiveCard"
    /\ op.in = JObj([body |-> JArr(<<JObj([type |-> JStr("Input.Rating")])>>)])
    /\ "Input.Rating" \in DOMAIN typeRegistry
    /\ op.out.st = "err" /\ op.out.e = "does not implement interface"

(* A card whose body holds one Input.Text has been decoded to a card whose
   body holds one InputText. *)
TextInputDecoded ==
    /\ op.name = "decode" /\ op.arg = "AdaptiveCard"
    /\ op.in = JObj([body |-> JArr(<<JObj([type |-> JStr("Input.Text")])>>)])
    /\ op.out.st = "ok"
    /\ VariantOf(op.out.v.f.Body.a[1]) = "InputText"

(* A submit action's data whose msteams member is an imBack payload has
   been decoded and the decode returned an error. *)
TeamsPayloadRejected ==
    /\ op.name = "decode" /\ op.arg = "SubmitActionData"
    /\ op.in = JObj([msteams |-> JObj([type |-> JStr("imBack")])])
    /\ op.out.st = "err"

(* The keys struct type T declares both for a field of its own and for a
   member of one of its embedded groups. *)
SharedKeys(T) ==
    {Fields(T)[i].key : i \in {j \in 1..Len(Fields(T)) : ~Fields(T)[j].anon}} \cap
    UNION {{Fields(TypeElem(fd.typ))[n].key : n \in 1..Len(Fields(TypeElem(fd.typ)))} :
           fd \in Embedded(T)}

(* The fields of the decoded entity v, its own and those of its groups, that
   are declared with key and hold a value other than their zero value. *)
PopulatedBy(v, key) ==
    {<<fd.name>> : fd \in {f \in {Fields(v.T)[i] : i \in 1..Len(Fields(v.T))} :
                              /\ ~f.anon /\ f.key = key
                              /\ v.f[f.name] # ZeroValue(v.T).f[f.name]}} \cup
    UNION {{<<fd.name, m.name>> :
               m \in {f \in {Fields(TypeElem(fd.typ))[n] :
                                n \in 1..Len(Fields(TypeElem(fd.typ)))} :
                         /\ f.key = key /\ v.f[fd.name] # Nil
                         /\ v.f[fd.name].v.f[f.name]
                                # ZeroValue(TypeElem(fd.typ)).f[f.name]}} :
           fd \in Embedded(v.T)}

(* C29: each key of a decoded object populates at most one declared field
   of the target, a field of the owner or a member of its group and never
   both, and encode emits each key from one field, so that an entity of a
   type whose owner and group share a key is decoded from its encoding as
   it was. *)
SharedKeyReadOnce ==
    /\ (op.name = "decode" /\ op.out.st = "ok" /\ op.in.k = "jobj") =>
           \A key \in DOMAIN op.in.o : Cardinality(PopulatedBy(op.out.v, key)) <= 1
    /\ (op.name = "roundtrip" /\ SharedKeys(op.in.T) # {}) => op.out = Ok(op.in)

(* The payload {"height": "a"} has been decoded into an image: the height of
   the image and the height of its group both hold "a". *)
HeightPopulatesTwoFields ==
    /\ op.name = "decode" /\ op.arg = "Image"
    /\ op.in = JObj([height |-> JStr("a")])
    /\ op.out.st = "ok"
    /\ op.out.v.f.Height = Str("a")
    /\ op.out.v.f.Common.v.f.Height = Ptr(Str("a"))

(* An image whose group holds the height "stretch" and whose own height is
   "auto" has been encoded and decoded again, and the group of the decoded
   image holds the height "auto". *)
GroupHeightReplaced ==
    /\ op.name = "roundtrip"
    /\ op.in = With("Image", [Common |-> Ptr(With("Common", [Height |-> Ptr(Str("stretch"))])),
                              Height |-> Str("auto")])
    /\ op.out.st = "ok"
    /\ op.out.v.f.Common.v.f.Height = Ptr(Str("auto"))

(* cs is one or more decimal digits. *)
IsUnsigned(cs) == Len(cs) > 0 /\ \A i \in 1..Len(cs) : DigitValue(cs[i]) >= 0

(* The string s is two unsigned decimal integers separated by one dot. *)
UnsignedPair(s) ==
    \E i \in 1..Len(Chars(s)) :
        /\ Chars(s)[i] = "."
        /\ IsUnsigned(SubSeq(Chars(s), 1, i - 1))
        /\ IsUnsigned(SubSeq(Chars(s), i + 1, Len(Chars(s))))

(* C30: ParseVersion accepts a string only if it consists of exactly two
   unsigned decimal integers separated by a single dot, so every Version it
   returns has Major >= 0 and Minor >= 0, and every other string (wrong
   number of parts, signs, non-digits) yields an error. *)
ParseAcceptsUnsignedPairs ==
    op.name = "parse" =>
        /\ op.out.st \in {"ok", "err"}
        /\ op.out.st = "ok" <=> UnsignedPair(op.arg)
        /\ op.out.st = "ok" => (op.out.v.Major >= 0 /\ op.out.v.Minor >= 0)

(* "1.-2" has been parsed to the version with major 1 and minor -2. *)
NegativeMinorParsed ==
    /\ op.name = "parse" /\ op.arg = "1.-2"
    /\ op.out = Ok([Major |-> 1, Minor |-> 0 - 2])
=============================================================================
